---- MODULE Spec2Model ----
(***************************************************************************)
(* MediView backend: the model manager (src/ml/model_wrapper.py), the      *)
(* inference service with its result cache (src/services/inference.py)     *)
(* and the HTTP handlers that drive them (src/api/ml.py,                   *)
(* src/api/inference.py, src/api/files.py).                                *)
(*                                                                         *)
(* Every HTTP handler is an `async def` whose body never awaits, so one    *)
(* event loop runs the handlers one after the other; the service and the   *)
(* manager themselves hold no lock.  A pipeline run is modelled step by    *)
(* step in frame[c]; the other handlers are single actions.                *)
(*                                                                         *)
(* Spec is the storage side (every run parameter, the result cache, the    *)
(* uploads) with a model file that loads and a network that answers;       *)
(* SpecManager is the model manager under every outcome of loading,        *)
(* inference and cleanup, driven by runs that store nothing and by the /ml *)
(* handlers; SpecTensor is predictions on preprocessed tensors of every    *)
(* shape; SpecQueue is requests arriving while the loop is busy; SpecCache *)
(* is two result folders with the evict and clear-all handlers;            *)
(* SpecFailures is saving runs and tensor runs with every step failing.    *)
(*                                                                         *)
(* The upload side (src/utils/file_utils.py, src/utils/nifti_validation.py)*)
(* has the one handler that does await, save_file, modelled in two steps.  *)
(* SpecResolver is the modality resolver on folders of any content and     *)
(* listing order; SpecEligibility is endpoint runs on studies that are and *)
(* are not eligible; SpecIngest is archive uploads under one name, in      *)
(* sequence and overlapping; SpecExpansion is uploads, one at a time, of   *)
(* every kind of archive; SpecUpload is uploads of every name and size.    *)
(*                                                                         *)
(* SpecService is the service cached by get_inference_service beside the   *)
(* manager's handlers; SpecCancel is saving runs given up by their caller; *)
(* SpecPaths is save_file, delete_file and resolve_file_path on names with *)
(* `..`, absolute names and folders, over a disk with files outside        *)
(* uploads/; SpecTasks is the task registry of src/api/upload.py, whose    *)
(* background coroutine does await (asyncio.sleep) and is modelled step by *)
(* step, and SpecTasksFair is the same with the event loop running every   *)
(* coroutine that can run.                                                 *)
(***************************************************************************)
EXTENDS Integers, Sequences, FiniteSets, TLC

VARIABLES
    wrappers,        \* MedNeXtWrapper objects, by slot
    model_wrapper,   \* the module global _model_wrapper (0 = None)
    inference_service, \* the module global _inference_service: the wrapper it holds (0 = None)
    cleanup_raises,  \* the device is in a state where moving a model off it raises
    last_call,       \* history: what the /ml call that has just returned did and answered
    predict_raised,  \* history: the last manager call was a predict whose inference raised
    results,         \* results/<study>/ : the files of each result folder
    uploads,         \* uploads/<name>/ : each study folder, its files in the order the file system lists them
    archives,        \* uploads/<file name> : the raw files uploaded, by declared name
    ingest,          \* per caller: its POST /upload-mri request
    validation,      \* history: the resolver's reports on uploads/s1 since its files last changed
    frame,           \* per caller: the pipeline run it has submitted
    waiting,         \* callers whose request has arrived and whose handler has not begun, oldest first
    disk,            \* the files and directories of the machine, by absolute path
    files_call,      \* history: the last call of save_file, delete_file or resolve_file_path and its answer
    processing_tasks, \* api/upload.py: the ProcessingStatus objects, in the registry or deleted from it
    storage          \* settings.upload_dir and the output directory of api/upload.py: the files in each

vars == <<wrappers, model_wrapper, inference_service, cleanup_raises, last_call,
          predict_raised, results, uploads, validation, archives, ingest, disk, files_call, processing_tasks, storage, frame, waiting>>

(***************************************************************************)
(* Sizes                                                                   *)
(***************************************************************************)
NumCallers == 2
Callers == 1..NumCallers
WrapperIds == 1..(NumCallers + 2)
ModelIds == 1..(NumCallers + 3)
Studies == {"s1"}
CacheStudies == {"s1", "s2"}
UploadNames == {"s1", "s1_1", "s1_2", "s2"}

max_inferences_before_cleanup == 5
NUM_CHANNELS == 4

NoModel == 0
NoWrapper == 0

(***************************************************************************)
(* Modality resolver: src/utils/nifti_validation.py                        *)
(* A file name is the token its stem ends with, its extension, and the     *)
(* counter a name collision has appended (0 = none): t1c.nii.gz is         *)
(* [token "t1c", ext "nii.gz", n 0]; t1c.nii_1.gz is the same with n = 1.   *)
(***************************************************************************)
REQUIRED_MODALITIES == {"t1c", "t1n", "t2w", "t2f"}

\* The keys of MODALITY_PATTERNS in the order the dict is iterated.
ModalityOrder == <<"t1c", "t1n", "t2w", "t2f">>

\* The patterns, each `<token>\.nii\.gz$`, by their token.
MODALITY_PATTERNS ==
    [t1c |-> {"t1c", "t1_c", "t1-c", "t1ce", "t1_ce", "t1-ce", "t1_contrast", "t1_gd"},
     t1n |-> {"t1n", "t1_n", "t1-n", "t1", "t1_native"},
     t2w |-> {"t2w", "t2_w", "t2-w", "t2", "t2_weighted"},
     t2f |-> {"t2f", "t2_f", "t2-f", "t2_flair", "t2-flair", "flair", "t2_fluid"}]

NoModality == "None"
NoName == [token |-> "None", ext |-> "", n |-> 0]
File(token, ext) == [token |-> token, ext |-> ext, n |-> 0]

\* glob("*.nii.gz") and glob("*.nii"): a suffixed t1c.nii_1.gz ends in neither.
EndsNiiGz(name) == name.ext = "nii.gz" /\ name.n = 0
EndsNii(name) == name.ext = "nii"

identify_modality(name) ==
    IF EndsNiiGz(name) /\ \E i \in 1..4 : name.token \in MODALITY_PATTERNS[ModalityOrder[i]]
    THEN ModalityOrder[CHOOSE i \in 1..4 :
             /\ name.token \in MODALITY_PATTERNS[ModalityOrder[i]]
             /\ \A j \in 1..(i - 1) : name.token \notin MODALITY_PATTERNS[ModalityOrder[j]]]
    ELSE NoModality

NoUpload == [exists |-> FALSE, listing |-> <<>>]

ValidationError(kind, modality, kept, other, missing) ==
    [kind |-> kind, modality |-> modality, kept |-> kept, other |-> other, missing |-> missing]

EmptyReport ==
    [is_valid |-> FALSE, found_modalities |-> [m \in REQUIRED_MODALITIES |-> NoName],
     missing_modalities |-> {}, extra_files |-> <<>>, total_nifti_files |-> 0,
     validation_errors |-> <<>>]

\* The loop over nifti_files: the first file of a modality is kept, a later
\* one only adds an error; files of no modality are collected.
RECURSIVE identify_all(_, _)
identify_all(nifti_files, result) ==
    IF nifti_files = <<>> THEN result
    ELSE LET nifti_file == Head(nifti_files)
             modality == identify_modality(nifti_file)
         IN  identify_all(Tail(nifti_files),
                 IF modality = NoModality
                 THEN [result EXCEPT !.extra_files = Append(@, nifti_file)]
                 ELSE IF result.found_modalities[modality] # NoName
                 THEN [result EXCEPT !.validation_errors =
                          Append(@, ValidationError("duplicate", modality,
                                        result.found_modalities[modality], nifti_file, {}))]
                 ELSE [result EXCEPT !.found_modalities[modality] = nifti_file])

validation_is_valid(result, missing) == missing = {}

validate_segmentation_files(folder) ==
    IF ~folder.exists
    THEN [EmptyReport EXCEPT !.validation_errors =
             <<ValidationError("no_folder", NoModality, NoName, NoName, {})>>]
    ELSE LET nifti_files == SelectSeq(folder.listing, EndsNiiGz)
                               \o SelectSeq(folder.listing, EndsNii)
         IN  IF nifti_files = <<>>
             THEN [EmptyReport EXCEPT !.validation_errors =
                      <<ValidationError("no_nifti", NoModality, NoName, NoName, {})>>]
             ELSE LET result == identify_all(nifti_files,
                                    [EmptyReport EXCEPT !.total_nifti_files = Len(nifti_files)])
                      missing == {m \in REQUIRED_MODALITIES : result.found_modalities[m] = NoName}
                  IN  [result EXCEPT
                          !.missing_modalities = missing,
                          !.is_valid = validation_is_valid(result, missing),
                          !.validation_errors =
                              IF missing = {} THEN @
                              ELSE Append(@, ValidationError("missing", NoModality, NoName,
                                                             NoName, missing))]

NoMapping == [m \in REQUIRED_MODALITIES |-> NoName]

\* get_modality_files_mapping: the found files of a valid folder, else None.
get_modality_files_mapping(folder) ==
    LET validation_result == validate_segmentation_files(folder)
    IN  IF validation_result.is_valid THEN validation_result.found_modalities ELSE NoMapping

\* The study folders the runs start from: one file for each modality.
EligibleFolder ==
    [exists |-> TRUE,
     listing |-> <<File("t1c", "nii.gz"), File("t1n", "nii.gz"),
                   File("t2w", "nii.gz"), File("t2f", "nii.gz")>>]

(***************************************************************************)
(* Uploads: src/utils/file_utils.py, src/api/files.py                      *)
(* A declared file name is its stem and its extension.                     *)
(***************************************************************************)
MAX_FILE_SIZE == 524288000
ALLOWED_EXTENSIONS == {"nii", "nii.gz", "zip"}

NoFileName == [stem |-> "", ext |-> ""]
Named(stem, ext) == [stem |-> stem, ext |-> ext]

\* The names under which raw files are kept.
RawNames == {Named("s1", "zip"), Named("s1", "nii.gz")}
NoRawFile == [exists |-> FALSE, body |-> "empty"]

is_allowed_file(filename) == filename.ext \in ALLOWED_EXTENSIONS

\* The size test with the limit itself refused (a variant, not the code's).
validate_file_limit_excluded(file) ==
    IF file.filename = NoFileName THEN 400
    ELSE IF ~is_allowed_file(file.filename) THEN 400
    ELSE IF file.size # 0 /\ file.size >= MAX_FILE_SIZE THEN 400
    ELSE 200

\* validate_file: the status it raises, 200 when it returns.
validate_file(file) ==
    IF file.filename = NoFileName THEN 400
    ELSE IF ~is_allowed_file(file.filename) THEN 400
    ELSE IF file.size # 0 /\ file.size > MAX_FILE_SIZE THEN 400
    ELSE 200

\* An archive entry: the base name of its path, whether it is a directory,
\* and what goes wrong when it is read or written.
Entry(name, fails) == [name |-> name, dir |-> FALSE, fails |-> fails]
DirEntry == [name |-> [token |-> "", ext |-> "", n |-> 0], dir |-> TRUE, fails |-> "none"]

\* Base names that start with '.' or '__'.
HiddenTokens == {".DS_Store", "._t1c", "__meta"}
IsHidden(name) == name.token \in HiddenTokens

FourVolumes ==
    <<Entry(File("t1c", "nii.gz"), "none"), Entry(File("t1n", "nii.gz"), "none"),
      Entry(File("t2w", "nii.gz"), "none"), Entry(File("t2f", "nii.gz"), "none")>>

\* The bodies uploaded and the entries zipfile finds in each; "corrupt" is
\* no archive, "empty" a file opened and not yet written, "garbled" one
\* body written over a longer one.
ZipBodies ==
    {"four", "three", "no_volumes", "hidden_only", "nested", "bad_crc", "unreadable",
     "write_error", "corrupt"}

BadZipBodies == {"corrupt", "empty", "garbled"}

infolist(body) ==
    CASE body = "four" -> FourVolumes
      [] body = "three" -> SubSeq(FourVolumes, 1, 3)
      [] body = "no_volumes" -> <<DirEntry, Entry(File("readme", "txt"), "none")>>
      [] body = "hidden_only" ->
            <<DirEntry, Entry(File(".DS_Store", ""), "none"),
              Entry(File("._t1c", "nii.gz"), "none"), Entry(File("__meta", "txt"), "none")>>
      [] body = "nested" ->
            <<DirEntry, Entry(File("t1c", "nii.gz"), "none"), DirEntry,
              Entry(File("t1c", "nii.gz"), "none"), Entry(File(".DS_Store", ""), "none"),
              Entry(File("readme", "txt"), "none"), Entry(File("readme", "txt"), "none"),
              Entry(File("t1c", "nii.gz"), "none")>>
      [] body = "bad_crc" ->
            <<Entry(File("t1c", "nii.gz"), "none"), Entry(File("t1n", "nii.gz"), "bad_crc")>>
      [] body = "unreadable" ->
            <<Entry(File("t1c", "nii.gz"), "none"), Entry(File("t1n", "nii.gz"), "read")>>
      [] body = "write_error" ->
            <<Entry(File("t1c", "nii.gz"), "none"), Entry(File("t1n", "nii.gz"), "write")>>
      [] OTHER -> <<>>

Range(f) == {f[i] : i \in DOMAIN f}

\* The first of name, <stem>_1<suffix>, <stem>_2<suffix>, ... not in the folder.
output_path(listing, name) ==
    [name EXCEPT !.n = CHOOSE n \in 0..Len(listing) :
        /\ [name EXCEPT !.n = n] \notin Range(listing)
        /\ \A k \in 0..(n - 1) : [name EXCEPT !.n = k] \in Range(listing)]

\* The loop over zip_ref.infolist(): directories and hidden names are
\* skipped, the rest is written under its base name; it stops at the first
\* entry that raises.
RECURSIVE extract_entries(_, _)
extract_entries(entries, acc) ==
    IF entries = <<>> \/ acc.raised # "none" THEN acc
    ELSE LET file_info == Head(entries)
         IN  extract_entries(Tail(entries),
                 IF file_info.dir \/ IsHidden(file_info.name) THEN acc
                 ELSE IF file_info.fails = "bad_crc" THEN [acc EXCEPT !.raised = "bad_zip"]
                 ELSE IF file_info.fails # "none" THEN [acc EXCEPT !.raised = "error"]
                 ELSE [acc EXCEPT !.listing =
                          Append(@, output_path(acc.listing, file_info.name))])

\* uploads/<base>, uploads/<base>_1, ... in the order the counter tries them.
SuffixedFolders == <<"s1", "s1_1", "s1_2">>

\* uploads/<base> whether it exists or not (a variant, not the code's).
extract_dir_no_counter(ups) == SuffixedFolders[1]

\* The first of them that does not exist.
extract_dir(ups) ==
    SuffixedFolders[CHOOSE k \in DOMAIN SuffixedFolders :
        /\ ~ups[SuffixedFolders[k]].exists
        /\ \A j \in 1..(k - 1) : ups[SuffixedFolders[j]].exists]

\* `except zipfile.BadZipFile` only re-raises; `except Exception` removes
\* the folder it created first.
extract_except(ups, dir, listing, raised) ==
    IF raised = "bad_zip"
    THEN [ups EXCEPT ![dir] = [exists |-> TRUE, listing |-> listing]]
    ELSE [ups EXCEPT ![dir] = NoUpload]

\* extract_zip_file on a raw file of the given body: what it raises, the
\* folders afterwards, and the result it returns.
extract_zip_file(body, ups) ==
    LET dir == extract_dir(ups)
        acc == IF body \in BadZipBodies
               THEN [listing |-> <<>>, raised |-> "bad_zip"]
               ELSE extract_entries(infolist(body), [listing |-> <<>>, raised |-> "none"])
        folder == [exists |-> TRUE, listing |-> acc.listing]
    IN  IF acc.raised # "none"
        THEN [raised |-> acc.raised, uploads |-> extract_except(ups, dir, acc.listing, acc.raised),
              extracted_folder |-> dir, total_files |-> 0, validation_result |-> EmptyReport]
        ELSE [raised |-> "none", uploads |-> [ups EXCEPT ![dir] = folder],
              extracted_folder |-> dir, total_files |-> Len(acc.listing),
              validation_result |-> validate_segmentation_files(folder)]

NoUploadFile == [filename |-> NoFileName, size |-> 0, body |-> "empty"]

IdleIngest ==
    [pc |-> "idle", file |-> NoUploadFile, linked |-> FALSE, overlapped |-> FALSE,
     type |-> "none", status |-> 0, extracted_folder |-> "None", total_files |-> 0,
     validation_result |-> EmptyReport]

(***************************************************************************)
(* Model manager: src/ml/model_wrapper.py                                  *)
(* A wrapper's `served` is history: the predictions the predictor instance *)
(* it holds has answered.                                                  *)
(***************************************************************************)
MedNeXtWrapper_init ==
    [model |-> NoModel, is_loaded |-> FALSE, inference_count |-> 0, served |-> 0]

LoadOutcomes == {"ok", "missing", "raises"}

\* force_gpu_cleanup: self.model.cpu(), del self.model, self.model = None and
\* the cache passes, all inside one try whose except only logs: when the
\* move off the device raises, the predictor stays where it was.
force_gpu_cleanup(w) ==
    IF cleanup_raises /\ w.model # NoModel
    THEN w
    ELSE [w EXCEPT !.model = NoModel, !.served = 0]

\* load_model: preventive cleanup when loaded, then the file check
\* ("missing" raises here), self.model = self._create_model(), then reading
\* and applying the weights ("raises" raises here, the new object in place);
\* on any exception: cleanup, model = None, is_loaded = False, return False.
\* The except branch without its own `self.model = None` (a variant, not the code's).
load_model_cleanup_only(w, outcome, newId) ==
    LET w1 == IF w.is_loaded THEN force_gpu_cleanup(w) ELSE w
        w2 == IF outcome = "raises" THEN [w1 EXCEPT !.model = newId, !.served = 0] ELSE w1
    IN  IF outcome = "ok"
        THEN [w1 EXCEPT !.model = newId, !.served = 0, !.inference_count = 0,
                        !.is_loaded = TRUE]
        ELSE [force_gpu_cleanup(w2) EXCEPT !.is_loaded = FALSE]

load_model(w, outcome, newId) ==
    LET w1 == IF w.is_loaded THEN force_gpu_cleanup(w) ELSE w
        w2 == IF outcome = "raises" THEN [w1 EXCEPT !.model = newId, !.served = 0] ELSE w1
    IN  IF outcome = "ok"
        THEN [w1 EXCEPT !.model = newId, !.served = 0, !.inference_count = 0,
                        !.is_loaded = TRUE]
        ELSE [force_gpu_cleanup(w2) EXCEPT !.model = NoModel, !.served = 0,
                                           !.is_loaded = FALSE]

load_model_returns(outcome) == outcome = "ok"

unload_model(w) ==
    [force_gpu_cleanup(w) EXCEPT !.is_loaded = FALSE, !.inference_count = 0]

\* An input tensor is its shape <<batch, channels, side>> (the three spatial
\* sides taken equal); input_tensor.shape[1] is the second entry.
\* The first entry instead (a variant, not the code's).
shape_0(shape) == shape[1]

shape_1(shape) == shape[2]

\* predict, first half: the guard, the channel check, the preventive reload.
\* Result: the wrapper afterwards and whether the call goes on to inference.
\* The same test one prediction later (a variant, not the code's).
PredictThreshold_late(w) == w.inference_count > max_inferences_before_cleanup

PredictThreshold(w) == w.inference_count >= max_inferences_before_cleanup

\* The guard testing is_loaded alone (a variant, not the code's).
predict_enter_flag_only(w, shape, outcome, newId) ==
    IF ~w.is_loaded
    THEN [w |-> w, go |-> FALSE, reloaded |-> FALSE, error |-> "not_loaded"]
    ELSE IF shape_1(shape) # NUM_CHANNELS
    THEN [w |-> force_gpu_cleanup(w), go |-> FALSE, reloaded |-> FALSE, error |-> "channels"]
    ELSE IF PredictThreshold(w)
    THEN LET w1 == load_model(force_gpu_cleanup(w), outcome, newId)
         IN  IF load_model_returns(outcome)
             THEN [w |-> w1, go |-> TRUE, reloaded |-> TRUE, error |-> "none"]
             ELSE [w |-> force_gpu_cleanup(w1), go |-> FALSE, reloaded |-> FALSE,
                   error |-> "reload_failed"]
    ELSE [w |-> w, go |-> TRUE, reloaded |-> FALSE, error |-> "none"]

predict_enter(w, shape, outcome, newId) ==
    IF ~w.is_loaded \/ w.model = NoModel
    THEN [w |-> w, go |-> FALSE, reloaded |-> FALSE, error |-> "not_loaded"]
    ELSE IF shape_1(shape) # NUM_CHANNELS
    THEN [w |-> force_gpu_cleanup(w), go |-> FALSE, reloaded |-> FALSE, error |-> "channels"]
    ELSE IF PredictThreshold(w)
    THEN LET w1 == load_model(force_gpu_cleanup(w), outcome, newId)
         IN  IF load_model_returns(outcome)
             THEN [w |-> w1, go |-> TRUE, reloaded |-> TRUE, error |-> "none"]
             ELSE [w |-> force_gpu_cleanup(w1), go |-> FALSE, reloaded |-> FALSE,
                   error |-> "reload_failed"]
    ELSE [w |-> w, go |-> TRUE, reloaded |-> FALSE, error |-> "none"]

\* predict, second half: self.model(input) returned or raised.
predict_exit(w, inferenceOk) ==
    IF inferenceOk
    THEN [w EXCEPT !.inference_count = @ + 1, !.served = @ + 1]
    ELSE force_gpu_cleanup(w)

(***************************************************************************)
(* Module-level functions of src/ml/model_wrapper.py.  A wrapper object    *)
(* lives in a slot for as long as something refers to it: the global, or   *)
(* the service of a running pipeline.                                      *)
(***************************************************************************)
Running(f) == f.pc \notin {"idle", "done"}

Referenced(mw, fr) ==
    {mw, inference_service} \cup {fr[c].w : c \in {d \in Callers : Running(fr[d])}}

FreeWrapperSlot == CHOOSE i \in WrapperIds : i \notin Referenced(model_wrapper, frame)

\* get_model_wrapper: the slot of the global wrapper, creating it when None.
get_model_wrapper == IF model_wrapper = NoWrapper THEN FreeWrapperSlot ELSE model_wrapper

\* _create_model for the wrapper in slot g: a predictor instance distinct
\* from those other wrappers hold and from those a predict is running on.
NewModelId(g) ==
    CHOOSE i \in ModelIds :
        /\ i \notin {wrappers[j].model : j \in WrapperIds \ {g}}
        /\ i \notin {frame[c].used : c \in Callers}
        /\ \A k \in 1..(i - 1) : \/ k \in {wrappers[j].model : j \in WrapperIds \ {g}}
                                 \/ k \in {frame[c].used : c \in Callers}

\* An object nothing refers to is destroyed (__del__ runs force_gpu_cleanup).
Collect(ws, mw, fr) ==
    [i \in WrapperIds |-> IF i \in Referenced(mw, fr) THEN ws[i] ELSE MedNeXtWrapper_init]

\* ensure_model_loaded on the wrapper in slot g (the global one).
ensure_model_loaded(ws, g, outcome, newId) ==
    IF ~ws[g].is_loaded
    THEN [ws EXCEPT ![g] = load_model(ws[g], outcome, newId)]
    ELSE ws

ensure_model_loaded_returns(ws, g, outcome) ==
    IF ~ws[g].is_loaded THEN load_model_returns(outcome) ELSE TRUE

(***************************************************************************)
(* Result cache: results/<study>/ with the files a run or the endpoint     *)
(* can leave there.  "seg" is <study>-seg.nii.gz, "overlay" is             *)
(* <study>-overlay.nii.gz, "altseg" another name matching *-seg.nii.gz.    *)
(* A file under a name matching neither pattern ("plain") is read by       *)
(* nothing and is not kept.  A file records the run that wrote it: the     *)
(* caller's number while that caller's run is in progress or has just      *)
(* returned, a number above NumCallers for an earlier run.                 *)
(***************************************************************************)
FileNames == {"seg", "overlay", "altseg"}
OutNames == {"None", "altseg", "plain"}
NoFile == [kind |-> "none", run |-> 0]
EmptyFolder == [exists |-> FALSE, files |-> [n \in FileNames |-> NoFile]]

IsSegName(n) == n \in {"seg", "altseg"}
IsOverlayName(n) == n = "overlay"

SegNames == {n \in FileNames : IsSegName(n)}
OverlayNames == {n \in FileNames : IsOverlayName(n)}

Glob(folder, names) ==
    {n \in names : folder.files[n] # NoFile}

\* check_existing_result: the first match of each glob, in directory order.
check_existing_result(folder) ==
    LET first(matches) == IF matches = {} THEN {"None"} ELSE matches
    IN  {[segmentation |-> sg, overlay |-> ov] :
            sg \in first(Glob(folder, SegNames)),
            ov \in first(Glob(folder, OverlayNames))}

\* A hit on the segmentation alone (a variant, not the code's).
CacheHit_segmentation_only(existing, create_overlay) ==
    existing.segmentation # "None"

CacheHit(existing, create_overlay) ==
    existing.segmentation # "None" /\ (~create_overlay \/ existing.overlay # "None")

\* GET /inference/cache-check/{folder_name}
check_cache_status(folder) ==
    {[has_segmentation |-> e.segmentation # "None", has_overlay |-> e.overlay # "None"] :
        e \in check_existing_result(folder)}

\* Earlier runs are told apart only by which files they share: their numbers
\* are reassigned in the order seg, overlay, altseg.
CompareOrder == <<"seg", "overlay", "altseg">>

Renumber(folder, s, fr) ==
    LET live(t) == t \in Callers /\ fr[t].pc # "idle" /\ fr[t].study = s
        tok(n) == folder.files[n].run
        old(n) == tok(n) # 0 /\ ~live(tok(n))
        key(n) == CHOOSE i \in 1..3 :
                     /\ tok(CompareOrder[i]) = tok(n)
                     /\ \A j \in 1..3 : tok(CompareOrder[j]) = tok(n) => i <= j
        keys == {key(CompareOrder[i]) : i \in {j \in 1..3 : old(CompareOrder[j])}}
        rank(n) == Cardinality({k \in keys : k <= key(n)})
    IN  [folder EXCEPT !.files =
            [n \in FileNames |->
                IF ~old(n) THEN folder.files[n]
                ELSE [folder.files[n] EXCEPT !.run = NumCallers + rank(n)]]]

(***************************************************************************)
(* Pipeline runs: POST /inference/folder/{folder_name} (via = "http"),      *)
(* run_inference_on_folder called directly (via = "service") and           *)
(* run_inference_on_preprocessed on a tensor (via = "preprocessed").       *)
(***************************************************************************)
NoneBefore == "none"

\* What preprocess_folder produces, with the batch axis the service adds.
PreprocessedShape == <<1, NUM_CHANNELS, 128>>

IdleFrame ==
    [pc |-> "idle", via |-> "service", study |-> "s1",
     save_result |-> FALSE, create_overlay |-> FALSE, force_reprocess |-> FALSE,
     output_filename |-> "None", shape |-> PreprocessedShape,
     w |-> NoWrapper, used |-> NoModel, overlay_image |-> FALSE,
     status |-> "none", cached |-> FALSE, saved_path |-> "None", overlay_path |-> "None",
     error |-> "none",
     \* history of the run, for the properties
     steps |-> <<>>, before |-> EmptyFolder, manager_before |-> MedNeXtWrapper_init, env_failed |-> FALSE,
     after_raise |-> FALSE, count_at_predict |-> 0, reloaded |-> FALSE,
     at_predict |-> MedNeXtWrapper_init,
     follows |-> NoneBefore,
     \* where the run stood when its caller cancelled it
     cancelled_at |-> "none"]

\* The event loop runs one handler at a time: handler c may run only while
\* no other caller's handler is between its first and its last statement.
\* Handlers on threads of their own would need no turn (a variant, not the code's).
EventLoopFree_threads(c) == TRUE

EventLoopFree(c) ==
    \A d \in Callers \ {c} : ~Running(frame[d])

\* "done" is the state right after a handler returned; once anything else
\* happens the response is in the past.
Age(f) == IF f.pc = "done" THEN IdleFrame ELSE f

Aged == [d \in Callers |-> Age(frame[d])]

\* Bookkeeping shared by the actions: destroyed wrappers, forgotten predictors,
\* the numbering of earlier runs.
\* The loop starts the handlers in the order their requests arrived: a
\* waiting caller leaves the line when its handler begins.
Served(fr) ==
    IF waiting # <<>> /\ fr[Head(waiting)].pc # "idle" THEN Tail(waiting) ELSE waiting

\* Whose handler the loop starts next: the oldest waiting request; with none
\* waiting, a request that arrives now (callers being alike, the least idle one).
Turn(c) ==
    IF waiting = <<>>
    THEN \A d \in Callers : d < c => frame[d].pc # "idle"
    ELSE c = Head(waiting)

NoCall == [op |-> "none", returned |-> "none", on |-> NoWrapper, before |-> MedNeXtWrapper_init]

SettleCall(ws, mw, fr, raised, res, call) ==
    /\ frame' = fr
    /\ model_wrapper' = mw
    /\ wrappers' = Collect(ws, mw, fr)
    /\ predict_raised' = raised
    /\ results' = [s \in CacheStudies |-> Renumber(res[s], s, fr)]
    /\ last_call' = call
    /\ waiting' = Served(fr)
    /\ UNCHANGED <<inference_service, cleanup_raises>>

Settle(ws, mw, fr, raised, res) == SettleCall(ws, mw, fr, raised, res, NoCall)

\* The caller has read the response.
Ack(c) ==
    /\ frame[c].pc = "done"
    /\ Settle(wrappers, model_wrapper, Aged, predict_raised, results)
    /\ UNCHANGED <<uploads, validation, archives, ingest, disk, files_call, processing_tasks, storage>>

Finished(f, status, error) ==
    [f EXCEPT !.pc = "done", !.status = status, !.error = error, !.used = NoModel]

\* `except Exception as e` around the steps of run_inference_pipeline and of
\* run_inference_from_preprocessed: the failure is the function's result.
\* With the saving after the try (a variant, not the code's).
pipeline_except_before_saving(f, error) ==
    IF error \in {"save", "save_overlay"}
    THEN Finished(f, "raised", error)
    ELSE [Finished(f, "failed", error) EXCEPT !.cached = FALSE]

pipeline_except(f, error) ==
    [Finished(f, "failed", error) EXCEPT !.cached = FALSE]

\* The request handled immediately before this one, when it was a saving run
\* on the same study that found the cache empty: what it answered.
Follows(c, s) ==
    IF \E d \in Callers \ {c} : /\ frame[d].pc = "done" /\ frame[d].study = s
                                /\ frame[d].save_result /\ frame[d].before = EmptyFolder
    THEN LET d == CHOOSE d \in Callers \ {c} : frame[d].pc = "done" /\ frame[d].study = s
         IN  IF frame[d].status # "ok" THEN "failed"
             ELSE IF frame[d].cached THEN "cached"
             ELSE IF frame[d].create_overlay THEN "processed_with_overlay"
             ELSE "processed"
    ELSE NoneBefore

\* Handler entry up to the cache check (api/inference.py 145-161,
\* services/inference.py 375-383 and 135-169).
Start(c, via, s, save, ov, force, out) ==
    /\ frame[c].pc = "idle"
    /\ Turn(c)
    /\ EventLoopFree(c)
    /\ via = "service" \/ ~save => out = "None"
    /\ LET fr == [Aged EXCEPT ![c].pc = "processing"]
           before == Renumber(results[s], s, fr)
           f0 == [IdleFrame EXCEPT !.via = via, !.study = s, !.save_result = save,
                      !.create_overlay = ov, !.force_reprocess = force,
                      !.output_filename = out, !.before = before,
                      !.follows = Follows(c, s)]
       IN  IF via = "http" /\ ~uploads[s].exists
           THEN Settle(wrappers, model_wrapper,
                       [Aged EXCEPT ![c] = Finished(f0, "404", "not_found")], predict_raised, results)
           ELSE LET g == get_model_wrapper
                    f1 == [f0 EXCEPT !.w = g, !.manager_before = wrappers[g],
                                     !.after_raise = predict_raised]
                IN  \E existing \in check_existing_result(results[s]) :
                      IF ~force /\ CacheHit(existing, ov)
                      THEN Settle(wrappers, g,
                                  [Aged EXCEPT ![c] =
                                      [Finished(f1, "ok", "none") EXCEPT
                                          !.cached = TRUE,
                                          !.saved_path = existing.segmentation,
                                          !.overlay_path = existing.overlay]], predict_raised, results)
                      ELSE Settle(wrappers, g,
                                  [Aged EXCEPT ![c] = [f1 EXCEPT !.pc = "processing"]], predict_raised, results)
    /\ UNCHANGED <<uploads, validation, archives, ingest, disk, files_call, processing_tasks, storage>>

\* run_inference_on_preprocessed(tensor, folder_name): a new service, then
\* run_inference_from_preprocessed, which neither looks at the cache nor
\* preprocesses; `shape` is the tensor's shape after the unsqueeze.
ChannelCounts == {NUM_CHANNELS - 1, NUM_CHANNELS, NUM_CHANNELS + 1}
TensorShapes == {<<b, ch, side>> : b \in {1, NUM_CHANNELS}, ch \in ChannelCounts, side \in {64, 128}}

StartPreprocessed(c, s, shape) ==
    /\ frame[c].pc = "idle"
    /\ Turn(c)
    /\ EventLoopFree(c)
    /\ LET g == get_model_wrapper
           f1 == [IdleFrame EXCEPT !.via = "preprocessed", !.study = s, !.shape = shape,
                      !.pc = "processing", !.w = g, !.manager_before = wrappers[g],
                      !.after_raise = predict_raised]
       IN  Settle(wrappers, g, [Aged EXCEPT ![c] = f1], predict_raised, results)
    /\ UNCHANGED <<uploads, validation, archives, ingest, disk, files_call, processing_tasks, storage>>

\* The caller gives its run up.  run_inference_pipeline takes no cancellation
\* signal (its parameters: folder_path, save_result, output_dir,
\* force_reprocess, create_overlay) and no step reads one: all a cancellation
\* leaves is the fact of it.
cancel(c) ==
    /\ Running(frame[c])
    /\ frame[c].cancelled_at = "none"
    /\ frame' = [frame EXCEPT ![c].cancelled_at = frame[c].pc]
    /\ UNCHANGED <<wrappers, model_wrapper, inference_service, cleanup_raises, last_call,
                   predict_raised, results, waiting>>
    /\ UNCHANGED <<uploads, validation, archives, ingest, disk, files_call, processing_tasks, storage>>

\* get_inference_service().run_inference_pipeline(folder, save_result=False):
\* a run on the service cached by an earlier get_inference_service, whose
\* self.model_wrapper is the wrapper that was global when it was constructed.
run_on_cached_service(c, s, ov) ==
    /\ frame[c].pc = "idle"
    /\ Turn(c)
    /\ EventLoopFree(c)
    /\ inference_service # NoWrapper
    /\ LET fr == [Aged EXCEPT ![c].pc = "processing"]
           f1 == [IdleFrame EXCEPT !.via = "cached", !.study = s, !.create_overlay = ov,
                      !.before = Renumber(results[s], s, fr), !.follows = Follows(c, s),
                      !.w = inference_service,
                      !.manager_before = wrappers[inference_service],
                      !.after_raise = predict_raised]
       IN  \E existing \in check_existing_result(results[s]) :
             IF CacheHit(existing, ov)
             THEN Settle(wrappers, model_wrapper,
                         [Aged EXCEPT ![c] =
                             [Finished(f1, "ok", "none") EXCEPT
                                 !.cached = TRUE,
                                 !.saved_path = existing.segmentation,
                                 !.overlay_path = existing.overlay]], predict_raised, results)
             ELSE Settle(wrappers, model_wrapper,
                         [Aged EXCEPT ![c] = [f1 EXCEPT !.pc = "processing"]], predict_raised, results)
    /\ UNCHANGED <<uploads, validation, archives, ingest, disk, files_call, processing_tasks, storage>>

\* 1. PREPROCESS (preprocess_folder raises unless the folder holds the four
\* modalities and can be read) and 2. INFERENCE up to the call of the network:
\* ensure_model_loaded() when the service's wrapper is not loaded, then
\* predict() as far as self.model(...).
Process(c, preprocessOk, outcome) ==
    /\ frame[c].pc = "processing"
    /\ IF frame[c].via = "preprocessed"
       THEN preprocessOk
       ELSE preprocessOk =>
                get_modality_files_mapping(uploads[frame[c].study]) # NoMapping
    /\ LET f == frame[c]
           w == f.w
           ensures == ~wrappers[w].is_loaded
           g == IF ensures THEN get_model_wrapper ELSE model_wrapper
           ws1 == IF ensures
                  THEN ensure_model_loaded(wrappers, g, outcome, NewModelId(g))
                  ELSE wrappers
           loads == (ensures /\ ~wrappers[g].is_loaded)
                       \/ (~ensures /\ wrappers[w].model # NoModel /\ shape_1(f.shape) = NUM_CHANNELS
                              /\ PredictThreshold(wrappers[w]))
           p == predict_enter(ws1[w], f.shape, outcome, NewModelId(w))
           first == IF f.via = "preprocessed" THEN <<>> ELSE <<"preprocess">>
           ws2 == [ws1 EXCEPT ![w] = p.w]
           f1 == [f EXCEPT !.steps = first \o (IF ensures THEN <<"ensure_loaded", "predict">>
                                                          ELSE <<"predict">>),
                           !.count_at_predict = ws1[w].inference_count,
                           !.at_predict = ws1[w],
                           !.reloaded = p.reloaded,
                           !.env_failed = loads /\ outcome # "ok"]
       IN  IF ~preprocessOk
           THEN /\ outcome = "ok"
                /\ Settle(wrappers, model_wrapper,
                          [Aged EXCEPT ![c] =
                              pipeline_except([f EXCEPT !.steps = <<"preprocess">>,
                                                         !.env_failed = TRUE], "preprocess")], predict_raised, results)
           ELSE /\ loads \/ outcome = "ok"
                /\ IF p.go
                   THEN Settle(ws2, g, [Aged EXCEPT ![c] = [f1 EXCEPT !.pc = "predicting",
                                                                      !.used = p.w.model]], FALSE, results)
                   ELSE Settle(ws2, g, [Aged EXCEPT ![c] = pipeline_except(f1, p.error)], FALSE, results)
    /\ UNCHANGED <<uploads, validation, archives, ingest, disk, files_call, processing_tasks, storage>>

\* What the run returns, and what the endpoint then does with it: the
\* segmentation file is renamed to output_filename (api/inference.py 197-206).
Respond(f, folder, c) ==
    LET saved == IF f.save_result /\ "save_seg" \in {f.steps[i] : i \in DOMAIN f.steps}
                 THEN "seg" ELSE "None"
        renames == /\ f.via = "http"
                   /\ f.save_result /\ saved # "None" /\ f.output_filename # "None"
                   /\ folder.files["seg"] # NoFile
    IN  [frame |-> [Finished(f, "ok", "none") EXCEPT
                        !.saved_path = IF renames THEN f.output_filename ELSE saved,
                        !.overlay_path =
                            IF "save_overlay" \in {f.steps[i] : i \in DOMAIN f.steps}
                            THEN "overlay" ELSE "None"],
         folder |-> IF renames
                    THEN [folder EXCEPT !.files =
                             [n \in FileNames |->
                                 IF n = f.output_filename THEN folder.files["seg"]
                                 ELSE IF n = "seg" THEN NoFile
                                 ELSE folder.files[n]]]
                    ELSE folder]

PostOutcomes == {"ok", "postprocess_raises", "overlay_raises"}

\* self.model(input_tensor) returns or raises (the count, the cleanup), then
\* 3. POSTPROCESS and 4. OVERLAY CREATION.
Infer(c, inferenceOk, outcome) ==
    /\ frame[c].pc = "predicting"
    /\ outcome = "overlay_raises" => frame[c].create_overlay
    /\ LET f == frame[c]
           s == f.study
           ws == [wrappers EXCEPT ![f.w] = predict_exit(wrappers[f.w], inferenceOk)]
           f1 == [f EXCEPT !.steps = @ \o (IF f.create_overlay /\ outcome # "postprocess_raises"
                                              THEN <<"postprocess", "overlay">>
                                              ELSE <<"postprocess">>),
                           !.overlay_image = f.create_overlay /\ outcome = "ok",
                           !.env_failed = outcome # "ok",
                           !.used = NoModel]
           r == Respond(f1, results[s], c)
       IN  IF ~inferenceOk
           THEN /\ outcome = "ok"
                /\ Settle(ws, model_wrapper,
                          [Aged EXCEPT ![c] =
                              pipeline_except([f EXCEPT !.env_failed = TRUE], "inference")], TRUE, results)
           ELSE IF outcome # "ok"
           THEN Settle(ws, model_wrapper, [Aged EXCEPT ![c] = pipeline_except(f1, outcome)], FALSE, results)
           ELSE IF f.save_result
           THEN Settle(ws, model_wrapper, [Aged EXCEPT ![c] = [f1 EXCEPT !.pc = "save"]], FALSE, results)
           ELSE Settle(ws, model_wrapper, [Aged EXCEPT ![c] = r.frame], FALSE, [results EXCEPT ![s] = r.folder])
    /\ UNCHANGED <<uploads, validation, archives, ingest, disk, files_call, processing_tasks, storage>>

\* 5. SALVARE: save_as_nifti writes results/<study>/<study>-seg.nii.gz.
save_as_nifti(folder, run) ==
    [folder EXCEPT !.exists = TRUE, !.files["seg"] = [kind |-> "seg", run |-> run]]

\* save_overlay_as_nifti writes results/<study>/<study>-overlay.nii.gz.
save_overlay_as_nifti(folder, run) ==
    [folder EXCEPT !.exists = TRUE, !.files["overlay"] = [kind |-> "overlay", run |-> run]]

SaveSegmentation(c, ok) ==
    /\ frame[c].pc = "save"
    /\ LET f == frame[c]
           s == f.study
           f1 == [f EXCEPT !.steps = Append(@, "save_seg"), !.env_failed = ~ok]
           folder == save_as_nifti(results[s], c)
           r == Respond(f1, folder, c)
       IN  IF ~ok
           THEN Settle(wrappers, model_wrapper,
                       [Aged EXCEPT ![c] = pipeline_except(f1, "save")], predict_raised, results)
           ELSE IF f.create_overlay /\ f.overlay_image
           THEN Settle(wrappers, model_wrapper,
                       [Aged EXCEPT ![c] = [f1 EXCEPT !.pc = "save_overlay"]], predict_raised, [results EXCEPT ![s] = folder])
           ELSE Settle(wrappers, model_wrapper, [Aged EXCEPT ![c] = r.frame], predict_raised, [results EXCEPT ![s] = r.folder])
    /\ UNCHANGED <<uploads, validation, archives, ingest, disk, files_call, processing_tasks, storage>>

SaveOverlay(c, ok) ==
    /\ frame[c].pc = "save_overlay"
    /\ LET f == frame[c]
           s == f.study
           f1 == [f EXCEPT !.steps = Append(@, "save_overlay"), !.env_failed = ~ok]
           r == Respond(f1, save_overlay_as_nifti(results[s], c), c)
       IN  IF ~ok
           THEN Settle(wrappers, model_wrapper,
                       [Aged EXCEPT ![c] = pipeline_except(f1, "save_overlay")], predict_raised, results)
           ELSE Settle(wrappers, model_wrapper, [Aged EXCEPT ![c] = r.frame], predict_raised, [results EXCEPT ![s] = r.folder])
    /\ UNCHANGED <<uploads, validation, archives, ingest, disk, files_call, processing_tasks, storage>>

(***************************************************************************)
(* The other handlers: each runs from its first to its last statement      *)
(* without giving up the loop.                                             *)
(***************************************************************************)
\* POST /ml/load-model: ensure_model_loaded on the global wrapper
load_model_endpoint(outcome) ==
    /\ EventLoopFree(0)
    /\ LET g == get_model_wrapper
       IN  /\ outcome = "ok" \/ ~wrappers[g].is_loaded
           /\ SettleCall(ensure_model_loaded(wrappers, g, outcome, NewModelId(g)), g, Aged,
                         FALSE, results,
                         [op |-> "load",
                          returned |-> IF ensure_model_loaded_returns(wrappers, g, outcome)
                                       THEN "True" ELSE "False",
                          on |-> g, before |-> wrappers[g]])
    /\ UNCHANGED <<uploads, validation, archives, ingest, disk, files_call, processing_tasks, storage>>

\* unload_model returns True after the cleanup; False only out of its
\* except branch, which nothing in the try can reach, the cleanup keeping
\* its exceptions to itself.
unload_model_returns == "True"

\* POST /ml/unload-model: unload_global_model unloads the global wrapper when
\* there is one and returns True without calling get_model_wrapper otherwise
unload_model_endpoint ==
    /\ EventLoopFree(0)
    /\ IF model_wrapper # NoWrapper
       THEN SettleCall([wrappers EXCEPT ![model_wrapper] = unload_model(@)], model_wrapper,
                       Aged, FALSE, results,
                       [op |-> "unload", returned |-> unload_model_returns,
                        on |-> model_wrapper, before |-> wrappers[model_wrapper]])
       ELSE SettleCall(wrappers, model_wrapper, Aged, predict_raised, results,
                       [NoCall EXCEPT !.op = "unload", !.returned = "True"])
    /\ UNCHANGED <<uploads, validation, archives, ingest, disk, files_call, processing_tasks, storage>>

\* POST /ml/cleanup: force_global_cleanup cleans the global wrapper when
\* there is one and sets the global to None
force_cleanup ==
    /\ EventLoopFree(0)
    /\ IF model_wrapper # NoWrapper
       THEN SettleCall([wrappers EXCEPT ![model_wrapper] = force_gpu_cleanup(@)], NoWrapper,
                       Aged, FALSE, results,
                       [op |-> "global_cleanup", returned |-> "None",
                        on |-> model_wrapper, before |-> wrappers[model_wrapper]])
       ELSE SettleCall(wrappers, model_wrapper, Aged, predict_raised, results,
                       [NoCall EXCEPT !.op = "global_cleanup", !.returned = "None"])
    /\ UNCHANGED <<uploads, validation, archives, ingest, disk, files_call, processing_tasks, storage>>

\* get_model_wrapper().force_cleanup(): the method is force_gpu_cleanup
\* under its public name
MedNeXtWrapper_force_cleanup ==
    /\ EventLoopFree(0)
    /\ LET g == get_model_wrapper
       IN  SettleCall([wrappers EXCEPT ![g] = force_gpu_cleanup(@)], g, Aged, FALSE, results,
                      [op |-> "force_cleanup", returned |-> "None",
                       on |-> g, before |-> wrappers[g]])
    /\ UNCHANGED <<uploads, validation, archives, ingest, disk, files_call, processing_tasks, storage>>

\* GET /inference/status: get_inference_service creates the service, and with
\* it the global wrapper if need be, on the first call and keeps it
get_inference_service ==
    IF inference_service = NoWrapper THEN get_model_wrapper ELSE inference_service

get_inference_status ==
    /\ EventLoopFree(0)
    /\ inference_service' = get_inference_service
    /\ model_wrapper' = IF inference_service = NoWrapper THEN get_model_wrapper ELSE model_wrapper
    /\ frame' = Aged
    /\ wrappers' = Collect(wrappers, model_wrapper', Aged)
    /\ last_call' = NoCall
    /\ results' = [s \in CacheStudies |-> Renumber(results[s], s, Aged)]
    /\ UNCHANGED <<cleanup_raises, predict_raised, uploads, validation, archives, ingest, disk, files_call, processing_tasks, storage, waiting>>

\* The device goes into, or comes out of, the state in which
\* self.model.cpu() raises.
device_fault ==
    /\ cleanup_raises' = ~cleanup_raises
    /\ UNCHANGED <<wrappers, model_wrapper, inference_service, last_call, predict_raised,
                   results, uploads, validation, archives, ingest, disk, files_call, processing_tasks, storage, frame, waiting>>

\* A request of caller c arrives while the loop is busy or others wait: it
\* lines up behind them.  Nothing in the handlers, the service or predict
\* counts the waiting requests or turns one away.
Arrive(c) ==
    /\ frame[c].pc \in {"idle", "done"}
    /\ \A i \in DOMAIN waiting : waiting[i] # c
    /\ \A d \in Callers : d < c => \/ Running(frame[d])
                                   \/ \E i \in DOMAIN waiting : waiting[i] = d
    /\ waiting' = Append(waiting, c)
    /\ frame' = [frame EXCEPT ![c] = Age(@)]
    /\ UNCHANGED <<wrappers, model_wrapper, inference_service, cleanup_raises, last_call,
                   predict_raised, results, uploads, validation, archives, ingest, disk, files_call, processing_tasks, storage>>

\* DELETE /inference/results/{folder_name}: 404 when results/<study> is not
\* a directory, else shutil.rmtree of that folder.
\* The rmtree applied to results/ itself (a variant, not the code's).
delete_inference_result_root(s) ==
    /\ EventLoopFree(0)
    /\ IF results[s].exists
       THEN SettleCall(wrappers, model_wrapper, Aged, predict_raised,
                       [t \in CacheStudies |-> EmptyFolder],
                       [NoCall EXCEPT !.op = "evict", !.returned = "200"])
       ELSE SettleCall(wrappers, model_wrapper, Aged, predict_raised, results,
                       [NoCall EXCEPT !.op = "evict", !.returned = "404"])
    /\ UNCHANGED <<uploads, validation, archives, ingest, disk, files_call, processing_tasks, storage>>

delete_inference_result(s) ==
    /\ EventLoopFree(0)
    /\ IF results[s].exists
       THEN SettleCall(wrappers, model_wrapper, Aged, predict_raised,
                       [results EXCEPT ![s] = EmptyFolder],
                       [NoCall EXCEPT !.op = "evict", !.returned = "200"])
       ELSE SettleCall(wrappers, model_wrapper, Aged, predict_raised, results,
                       [NoCall EXCEPT !.op = "evict", !.returned = "404"])
    /\ UNCHANGED <<uploads, validation, archives, ingest, disk, files_call, processing_tasks, storage>>

\* DELETE /inference/cache/clear-all: shutil.rmtree of results/ when it exists
clear_all_cache ==
    /\ EventLoopFree(0)
    /\ SettleCall(wrappers, model_wrapper, Aged, predict_raised,
                  [t \in CacheStudies |-> EmptyFolder],
                  [NoCall EXCEPT !.op = "clear_all", !.returned = "200"])
    /\ UNCHANGED <<uploads, validation, archives, ingest, disk, files_call, processing_tasks, storage>>

\* DELETE /files/{filename}: the study folder is removed from uploads
delete_uploaded_file(s) ==
    /\ EventLoopFree(0)
    /\ uploads[s].exists
    /\ uploads' = [uploads EXCEPT ![s] = NoUpload]
    /\ validation' = <<>>
    /\ UNCHANGED <<archives, ingest, disk, files_call, processing_tasks, storage>>
    /\ Settle(wrappers, model_wrapper, Aged, predict_raised, results)

(***************************************************************************)
(* The program                                                             *)
(***************************************************************************)
NoInferenceStep ==
    UNCHANGED <<wrappers, model_wrapper, inference_service, cleanup_raises, last_call,
                predict_raised, results, frame, waiting>>

\* POST /upload-mri up to the await in save_file: validate_file, then the
\* raw file is opened "wb", which creates it or empties the one there.
upload_mri_file(c, file) ==
    /\ ingest[c].pc = "idle"
    /\ IF validate_file(file) # 200
       THEN /\ ingest' = [ingest EXCEPT ![c] =
                   [IdleIngest EXCEPT !.pc = "done", !.file = file, !.type = "rejected",
                                      !.status = validate_file(file)]]
            /\ UNCHANGED archives
       ELSE LET overlaps(d) == /\ d # c /\ ingest[d].pc = "reading"
                               /\ ingest[d].file.filename = file.filename
            IN  /\ archives' = [archives EXCEPT ![file.filename] =
                                   [exists |-> TRUE, body |-> "empty"]]
                /\ ingest' = [d \in Callers |->
                       IF d = c
                       THEN [IdleIngest EXCEPT !.pc = "reading", !.file = file, !.linked = TRUE,
                                !.overlapped = \E e \in Callers : overlaps(e)]
                       ELSE IF overlaps(d) THEN [ingest[d] EXCEPT !.overlapped = TRUE]
                       ELSE ingest[d]]
    /\ UNCHANGED <<uploads, validation>>
    /\ NoInferenceStep
    /\ UNCHANGED <<disk, files_call, processing_tasks, storage>>

\* What is at the path after buffer.write(content): the body, or a mix when
\* it is shorter than what another request wrote into the same file; a
\* file removed since it was opened is written without being at the path.
Written(raw, f) ==
    IF ~f.linked THEN {raw}
    ELSE IF raw.body \in {"empty", f.file.body} THEN {[raw EXCEPT !.body = f.file.body]}
    ELSE {[raw EXCEPT !.body = f.file.body], [raw EXCEPT !.body = "garbled"]}

\* save_file from the return of `await file.read()` to its end, with the
\* response of the endpoint.
save_file(c) ==
    /\ ingest[c].pc = "reading"
    /\ \E k \in DOMAIN SuffixedFolders : ~uploads[SuffixedFolders[k]].exists
    /\ LET f == ingest[c]
           file_path == f.file.filename
       IN  \E raw \in Written(archives[file_path], f) :
             IF ~raw.exists
             THEN /\ ingest' = [ingest EXCEPT ![c] =
                         [f EXCEPT !.pc = "done", !.type = "error", !.status = 500,
                                   !.linked = FALSE]]
                  /\ UNCHANGED <<archives, uploads>>
             ELSE IF file_path.ext # "zip"
             THEN /\ archives' = [archives EXCEPT ![file_path] = raw]
                  /\ ingest' = [ingest EXCEPT ![c] =
                         [f EXCEPT !.pc = "done", !.type = "single_file", !.status = 200,
                                   !.linked = FALSE]]
                  /\ UNCHANGED uploads
             ELSE LET extraction_result == extract_zip_file(raw.body, uploads)
                  IN  /\ uploads' = extraction_result.uploads
                      /\ IF extraction_result.raised = "none"
                         THEN /\ archives' = [archives EXCEPT ![file_path] = NoRawFile]
                              /\ ingest' = [d \in Callers |->
                                     IF d = c
                                     THEN [f EXCEPT !.pc = "done", !.type = "zip_extracted",
                                              !.status = 200, !.linked = FALSE,
                                              !.extracted_folder = extraction_result.extracted_folder,
                                              !.total_files = extraction_result.total_files,
                                              !.validation_result =
                                                  extraction_result.validation_result]
                                     ELSE IF ingest[d].file.filename = file_path
                                     THEN [ingest[d] EXCEPT !.linked = FALSE]
                                     ELSE ingest[d]]
                         ELSE /\ archives' = [archives EXCEPT ![file_path] = raw]
                              /\ ingest' = [ingest EXCEPT ![c] =
                                     [f EXCEPT !.pc = "done", !.type = "zip_failed",
                                               !.status = 200, !.linked = FALSE,
                                               !.extracted_folder =
                                                   extraction_result.extracted_folder]]
    /\ validation' = <<>>
    /\ NoInferenceStep
    /\ UNCHANGED <<disk, files_call, processing_tasks, storage>>

\* The response has been sent.
upload_returns(c) ==
    /\ ingest[c].pc = "done"
    /\ ingest' = [ingest EXCEPT ![c] = IdleIngest]
    /\ UNCHANGED <<uploads, validation, archives>>
    /\ NoInferenceStep
    /\ UNCHANGED <<disk, files_call, processing_tasks, storage>>

(***************************************************************************)
(* Paths: utils/file_utils.py save_file and delete_file, api/files.py      *)
(* resolve_file_path.  A path is a sequence of components, a component a   *)
(* sequence of pieces of text, so that str() and startswith() work on the  *)
(* characters as the code's do.  The disk holds no symbolic links.         *)
(***************************************************************************)
Up == <<"..">>

\* The working directory of the server.
Cwd == << <<"srv">> >>

\* Path(...): relative to the working directory unless absolute.
PathOf(absolute, parts) == [absolute |-> absolute, parts |-> parts]

UPLOAD_DIR == PathOf(FALSE, << <<"uploads">> >>)

\* pathlib's `/`: an absolute right operand replaces the left one, and
\* nothing is normalised.
Div(dir, name) ==
    IF name.absolute THEN name ELSE PathOf(dir.absolute, dir.parts \o name.parts)

RECURSIVE Normalise(_, _)
Normalise(done, rest) ==
    IF rest = <<>> THEN done
    ELSE IF Head(rest) = Up
    THEN Normalise(IF done = <<>> THEN <<>> ELSE SubSeq(done, 1, Len(done) - 1), Tail(rest))
    ELSE Normalise(Append(done, Head(rest)), Tail(rest))

\* Path.resolve(): absolute, the `..` components removed.
resolve(p) == Normalise(<<>>, IF p.absolute THEN p.parts ELSE Cwd \o p.parts)

\* str(path)
RECURSIVE str(_)
str(parts) == IF parts = <<>> THEN <<>> ELSE <<"/">> \o Head(parts) \o str(Tail(parts))

startswith(s, prefix) == Len(s) >= Len(prefix) /\ SubSeq(s, 1, Len(prefix)) = prefix

\* The path is the directory or lies in it.
Within(parts, dir) == Len(parts) >= Len(dir) /\ SubSeq(parts, 1, Len(dir)) = dir

UploadsRoot == resolve(UPLOAD_DIR)

\* What the machine holds before the first request: uploads/ with a file and
\* a study folder, and files outside it.
InitialDisk ==
    [dirs  |-> {Cwd, UploadsRoot, Append(UploadsRoot, <<"s1">>),
                Append(Cwd, <<"uploads", "_old">>), << <<"etc">> >>},
     files |-> {Append(UploadsRoot, <<"a.nii">>),
                UploadsRoot \o << <<"s1">>, <<"b.nii">> >>,
                Append(Cwd, <<"secret.nii">>),
                Cwd \o << <<"uploads", "_old">>, <<"a.nii">> >>,
                << <<"etc">>, <<"x.nii">> >>}]

\* The names a client sends: plain, with `..`, absolute, of a folder.
UserNames ==
    {PathOf(FALSE, << <<"a.nii">> >>),
     PathOf(FALSE, << <<"b.nii">> >>),
     PathOf(FALSE, << <<"new.nii">> >>),
     PathOf(FALSE, << <<"s1">> >>),
     PathOf(FALSE, << <<"s1">>, Up, <<"a.nii">> >>),
     PathOf(FALSE, << Up, <<"secret.nii">> >>),
     PathOf(FALSE, << Up, <<"new.nii">> >>),
     PathOf(FALSE, << Up, <<"uploads", "_old">>, <<"a.nii">> >>),
     PathOf(FALSE, << Up, <<"uploads", "_old">> >>),
     PathOf(TRUE,  << <<"etc">>, <<"x.nii">> >>)}

NoPath == << <<"None">> >>

NoFilesCall == [op |-> "none", name |-> PathOf(FALSE, <<>>), status |-> 0, path |-> NoPath]

\* The system follows a path component by component: the directory a `..`
\* is taken from must exist.
Walkable(d, p) ==
    LET a == IF p.absolute THEN p.parts ELSE Cwd \o p.parts
    IN  \A i \in 1..Len(a) : a[i] = Up => Normalise(<<>>, SubSeq(a, 1, i - 1)) \in d.dirs

is_file(d, p) == Walkable(d, p) /\ resolve(p) \in d.files

exists(d, p) == Walkable(d, p) /\ resolve(p) \in d.files \cup d.dirs

\* save_file for a file whose name does not end in .zip: the file is written
\* at UPLOAD_DIR / file.filename; an exception is answered 500 (the except
\* branch finds no partial file to unlink when open has failed).
save_file_at(filename) ==
    LET file_path == Div(UPLOAD_DIR, filename)
        at == resolve(file_path)
        \* open(file_path, "wb") succeeds: the parent directory is there and
        \* the path is not a directory
        opens == /\ Walkable(disk, file_path)
                 /\ at # <<>>
                 /\ SubSeq(at, 1, Len(at) - 1) \in disk.dirs
                 /\ at \notin disk.dirs
    IN  /\ IF opens
           THEN /\ disk' = [disk EXCEPT !.files = @ \cup {resolve(file_path)}]
                /\ files_call' = [op |-> "save_file", name |-> filename, status |-> 200,
                                  path |-> resolve(file_path)]
           ELSE /\ disk' = disk
                /\ files_call' = [op |-> "save_file", name |-> filename, status |-> 500,
                                  path |-> NoPath]
        /\ NoInferenceStep
        /\ UNCHANGED <<uploads, validation, archives, ingest, processing_tasks, storage>>

delete_file(filename) ==
    LET item_path == Div(UPLOAD_DIR, filename)
        call(status, path) == [op |-> "delete_file", name |-> filename, status |-> status,
                               path |-> path]
    IN  /\ IF ~exists(disk, item_path)
           THEN disk' = disk /\ files_call' = call(404, NoPath)
           ELSE IF is_file(disk, item_path)
           THEN /\ disk' = [disk EXCEPT !.files = @ \ {resolve(item_path)}]
                /\ files_call' = call(200, resolve(item_path))
           ELSE \* shutil.rmtree(item_path)
                /\ disk' = [dirs  |-> {x \in disk.dirs : ~Within(x, resolve(item_path))},
                            files |-> {x \in disk.files : ~Within(x, resolve(item_path))}]
                /\ files_call' = call(200, resolve(item_path))
        /\ NoInferenceStep
        /\ UNCHANGED <<uploads, validation, archives, ingest, processing_tasks, storage>>

\* resolve_file_path, as GET /files/{filename}/info and /download call it:
\* the path answered is the one the handler then reads.
resolve_file_path(filename) ==
    LET file_path == resolve(Div(UPLOAD_DIR, filename))
        call(status, path) == [op |-> "resolve_file_path", name |-> filename,
                               status |-> status, path |-> path]
        \* UPLOAD_DIR.rglob(Path(filename).name): what lies below uploads/
        \* under that last component
        possible_paths ==
            {x \in disk.files \cup disk.dirs :
                /\ UploadsRoot \in disk.dirs
                /\ Within(x, UploadsRoot) /\ x # UploadsRoot
                /\ x[Len(x)] = filename.parts[Len(filename.parts)]}
    IN  /\ IF ~startswith(str(file_path), str(UploadsRoot))
           THEN files_call' = call(400, NoPath)
           ELSE IF file_path \notin disk.files \cup disk.dirs
           THEN IF possible_paths # {}
                THEN \E found \in possible_paths : files_call' = call(200, found)
                ELSE files_call' = call(404, NoPath)
           ELSE files_call' = call(200, file_path)
        /\ disk' = disk
        /\ NoInferenceStep
        /\ UNCHANGED <<uploads, validation, archives, ingest, processing_tasks, storage>>

(***************************************************************************)
(* The task registry: api/upload.py.  A file name is a sequence of pieces  *)
(* of text, "." among them.                                                *)
(***************************************************************************)
NumTasks == 2

\* The ids uuid4 hands out: never the same twice.
TaskIds == 1..NumTasks

TaskFileNames ==
    {<<"scan", ".", "nii">>, <<"scan", "2", ".", "nii">>, <<"brain", ".", "nii", ".", "gz">>}

NoTaskFile == <<>>

\* str.split('.')[0]
RECURSIVE split_first(_)
split_first(name) ==
    IF name = <<>> \/ Head(name) = "." THEN <<>> ELSE <<Head(name)>> \o split_first(Tail(name))

\* The text occurs in the name: glob's *text*.
Contains(name, text) ==
    \E i \in 0..(Len(name) - Len(text)) : SubSeq(name, i + 1, i + Len(text)) = text

\* save_uploaded_file(file_content, filename): the file is kept in
\* settings.upload_dir under the declared name made unique.
saved_name(t, filename) == <<"upload", ToString(t), "_">> \o filename

\* file_manager.create_output_path(input_path.name)
create_output_path(name) == <<"result", "_">> \o name

\* No object: the id has not been handed out.  registered: the object is in
\* processing_tasks.  pc: where the background coroutine of the task stands.
NoTask ==
    [created |-> FALSE, registered |-> FALSE, filename |-> NoTaskFile, input |-> NoTaskFile,
     status |-> "none", progress |-> 0, result_file |-> NoTaskFile, pc |-> "none",
     \* history, for the properties
     deleted |-> FALSE, background |-> FALSE]

\* ProcessingStatus.__init__
ProcessingStatus(filename) ==
    [NoTask EXCEPT !.created = TRUE, !.filename = filename, !.status = "queued"]

\* ProcessingStatus.update, with the status left as it was (a variant).
update_keeps_status(task, status, progress, result_file) ==
    [task EXCEPT !.progress = progress,
                 !.result_file = IF result_file # NoTaskFile THEN result_file ELSE @]

\* ProcessingStatus.update
update(task, status, progress, result_file) ==
    [task EXCEPT !.status = status,
                 !.progress = progress,
                 !.result_file = IF result_file # NoTaskFile THEN result_file ELSE @]

\* POST /api/upload/nifti with a file validate_upload and validate_nifti
\* accept (one they refuse leaves nothing behind: the saved file is
\* unlinked and no task is made).  Nothing is written before
\* `await file.read()` returns, and nothing awaited after it.
upload_and_process(filename, process_immediately) ==
    /\ \E t \in TaskIds : ~processing_tasks[t].created
    /\ LET task_id == CHOOSE t \in TaskIds :
                          /\ ~processing_tasks[t].created
                          /\ \A u \in 1..(t - 1) : processing_tasks[u].created
           saved_path == saved_name(task_id, filename)
           processing_task == [ProcessingStatus(filename) EXCEPT
                                  !.registered = TRUE, !.input = saved_path]
       IN  /\ storage' = [storage EXCEPT !.upload_dir = @ \cup {saved_path}]
           /\ processing_tasks' = [processing_tasks EXCEPT ![task_id] =
                  IF process_immediately
                  THEN [update(processing_task, "processing", 10, NoTaskFile) EXCEPT
                           !.pc = "scheduled", !.background = TRUE]
                  ELSE processing_task]
    /\ NoInferenceStep
    /\ UNCHANGED <<uploads, validation, archives, ingest, disk, files_call>>

\* _process_nifti_async up to the first sleep.  `task = processing_tasks[task_id]`
\* is outside the try: with the record deleted the coroutine ends there.
process_begins(t) ==
    /\ processing_tasks[t].pc = "scheduled"
    /\ processing_tasks' = [processing_tasks EXCEPT ![t] =
           IF ~processing_tasks[t].registered
           THEN [@ EXCEPT !.pc = "raised"]
           ELSE [update(@, "processing", 20, NoTaskFile) EXCEPT !.pc = "preprocess"]]
    /\ UNCHANGED storage
    /\ NoInferenceStep
    /\ UNCHANGED <<uploads, validation, archives, ingest, disk, files_call>>

\* A sleep ends: the next update.
process_continues(t) ==
    /\ processing_tasks[t].pc \in {"preprocess", "inference"}
    /\ processing_tasks' = [processing_tasks EXCEPT ![t] =
           IF processing_tasks[t].pc = "preprocess"
           THEN [update(@, "processing", 50, NoTaskFile) EXCEPT !.pc = "inference"]
           ELSE [update(@, "processing", 80, NoTaskFile) EXCEPT !.pc = "postprocess"]]
    /\ UNCHANGED storage
    /\ NoInferenceStep
    /\ UNCHANGED <<uploads, validation, archives, ingest, disk, files_call>>

\* The last sleep ends: the input is copied to the output path; an exception
\* (the input is gone, the copy fails) marks the task failed.
process_ends(t, copies) ==
    /\ processing_tasks[t].pc = "postprocess"
    /\ LET task == processing_tasks[t]
           result_path == create_output_path(task.input)
       IN  IF copies /\ task.input \in storage.upload_dir
           THEN /\ storage' = [storage EXCEPT !.output_dir = @ \cup {result_path}]
                /\ processing_tasks' = [processing_tasks EXCEPT ![t] =
                       [update(task, "completed", 100, result_path) EXCEPT !.pc = "returned"]]
           ELSE /\ storage' = storage
                /\ processing_tasks' = [processing_tasks EXCEPT ![t] =
                       [update(task, "failed", task.progress, NoTaskFile) EXCEPT !.pc = "returned"]]
    /\ NoInferenceStep
    /\ UNCHANGED <<uploads, validation, archives, ingest, disk, files_call>>

\* DELETE /api/upload/task/{task_id} for a task in the registry (404 and no
\* effect otherwise).
delete_task(task_id) ==
    /\ processing_tasks[task_id].registered
    /\ LET task == processing_tasks[task_id]
           \* Path(settings.upload_dir).glob(f"*{task.filename.split('.')[0]}*")
           upload_files == {f \in storage.upload_dir :
                               Contains(f, split_first(task.filename))}
       IN  /\ storage' = [upload_dir |-> storage.upload_dir \ upload_files,
                          output_dir |-> storage.output_dir \ {task.result_file}]
           /\ processing_tasks' = [processing_tasks EXCEPT ![task_id] =
                  [@ EXCEPT !.registered = FALSE, !.deleted = TRUE]]
    /\ NoInferenceStep
    /\ UNCHANGED <<uploads, validation, archives, ingest, disk, files_call>>

Init ==
    /\ wrappers = [i \in WrapperIds |-> MedNeXtWrapper_init]
    /\ model_wrapper = NoWrapper
    /\ inference_service = NoWrapper
    /\ cleanup_raises = FALSE
    /\ last_call = NoCall
    /\ predict_raised = FALSE
    /\ results = [s \in CacheStudies |-> EmptyFolder]
    /\ uploads = [s \in UploadNames |-> IF s \in CacheStudies THEN EligibleFolder ELSE NoUpload]
    /\ validation = <<>>
    /\ archives = [n \in RawNames |-> NoRawFile]
    /\ ingest = [c \in Callers |-> IdleIngest]
    /\ frame = [c \in Callers |-> IdleFrame]
    /\ waiting = <<>>
    /\ disk = InitialDisk
    /\ files_call = NoFilesCall
    /\ processing_tasks = [t \in TaskIds |-> NoTask]
    /\ storage = [upload_dir |-> {}, output_dir |-> {}]

Next ==
    \/ \E c \in Callers, via \in {"service", "http"}, s \in Studies,
          save \in BOOLEAN, ov \in BOOLEAN, force \in BOOLEAN, out \in OutNames :
            Start(c, via, s, save, ov, force, out)
    \/ \E c \in Callers, ok \in BOOLEAN : Process(c, ok, "ok")
    \/ \E c \in Callers, outcome \in PostOutcomes : Infer(c, TRUE, outcome)
    \/ \E c \in Callers, ok \in BOOLEAN : SaveSegmentation(c, ok)
    \/ \E c \in Callers, ok \in BOOLEAN : SaveOverlay(c, ok)
    \/ \E c \in Callers : Ack(c)
    \/ \E s \in Studies : delete_inference_result(s)
    \/ \E s \in Studies : delete_uploaded_file(s)

Spec == Init /\ [][Next]_vars

NextManager ==
    \/ \E c \in Callers, s \in Studies, ov \in BOOLEAN :
            Start(c, "service", s, FALSE, ov, FALSE, "None")
    \/ \E c \in Callers, ok \in BOOLEAN, outcome \in LoadOutcomes : Process(c, ok, outcome)
    \/ \E c \in Callers, ok \in BOOLEAN : Infer(c, ok, "ok")
    \/ \E c \in Callers : Ack(c)
    \/ \E outcome \in LoadOutcomes : load_model_endpoint(outcome)
    \/ unload_model_endpoint
    \/ force_cleanup
    \/ MedNeXtWrapper_force_cleanup
    \/ get_inference_status
    \/ device_fault

SpecManager == Init /\ [][NextManager]_vars

NextTensor ==
    \/ \E c \in Callers, s \in Studies, shape \in TensorShapes :
            StartPreprocessed(c, s, shape)
    \/ \E c \in Callers, outcome \in LoadOutcomes : Process(c, TRUE, outcome)
    \/ \E c \in Callers, ok \in BOOLEAN : Infer(c, ok, "ok")
    \/ \E c \in Callers : Infer(c, TRUE, "postprocess_raises")
    \/ \E c \in Callers : Ack(c)
    \/ unload_model_endpoint
    \/ device_fault

SpecTensor == Init /\ [][NextTensor]_vars

NextQueue ==
    \/ \E c \in Callers : Arrive(c)
    \/ \E c \in Callers, s \in Studies, ov \in BOOLEAN :
            Start(c, "service", s, FALSE, ov, FALSE, "None")
    \/ \E c \in Callers, ok \in BOOLEAN : Process(c, ok, "ok")
    \/ \E c \in Callers, ok \in BOOLEAN : Infer(c, ok, "ok")
    \/ \E c \in Callers : Ack(c)
    \/ unload_model_endpoint

SpecQueue == Init /\ [][NextQueue]_vars

NextCache ==
    \/ \E c \in Callers, s \in CacheStudies, ov \in BOOLEAN :
            Start(c, "service", s, TRUE, ov, FALSE, "None")
    \/ \E c \in Callers : Process(c, TRUE, "ok")
    \/ \E c \in Callers : Infer(c, TRUE, "ok")
    \/ \E c \in Callers : SaveSegmentation(c, TRUE)
    \/ \E c \in Callers : SaveOverlay(c, TRUE)
    \/ \E c \in Callers : Ack(c)
    \/ \E s \in CacheStudies : delete_inference_result(s)
    \/ clear_all_cache

SpecCache == Init /\ [][NextCache]_vars

NextFailures ==
    \/ \E c \in Callers, s \in Studies, ov \in BOOLEAN :
            Start(c, "service", s, TRUE, ov, FALSE, "None")
    \/ \E c \in Callers, s \in Studies, shape \in TensorShapes :
            StartPreprocessed(c, s, shape)
    \/ \E c \in Callers, ok \in BOOLEAN, outcome \in LoadOutcomes : Process(c, ok, outcome)
    \/ \E c \in Callers, ok \in BOOLEAN, outcome \in PostOutcomes : Infer(c, ok, outcome)
    \/ \E c \in Callers, ok \in BOOLEAN : SaveSegmentation(c, ok)
    \/ \E c \in Callers, ok \in BOOLEAN : SaveOverlay(c, ok)
    \/ \E c \in Callers : Ack(c)

SpecFailures == Init /\ [][NextFailures]_vars

(***************************************************************************)
(* The resolver on a folder of any content.                                *)
(***************************************************************************)
MaxFiles == 5

\* Two names of t1c, one of each other modality, and a .nii file, which no
\* pattern matches.
ResolverNames ==
    {File("t1c", "nii.gz"), File("t1ce", "nii.gz"), File("t1n", "nii.gz"),
     File("t2w", "nii.gz"), File("t2f", "nii.gz"), File("t1c", "nii")}

IsListing(l) == \A i, j \in DOMAIN l : i # j => l[i] # l[j]

Listings == {l \in UNION {[1..n -> ResolverNames] : n \in 0..MaxFiles} : IsListing(l)}

ResolverFolders == {NoUpload} \cup {[exists |-> TRUE, listing |-> l] : l \in Listings}

\* The same files as the directory may list them another time.
Enumerations(listing) ==
    {[i \in DOMAIN listing |-> listing[p[i]]] : p \in Permutations(DOMAIN listing)}

\* The state after construction with uploads/s1 any one of `folders`.
InitOn(folders) ==
    /\ wrappers = [i \in WrapperIds |-> MedNeXtWrapper_init]
    /\ model_wrapper = NoWrapper
    /\ inference_service = NoWrapper
    /\ cleanup_raises = FALSE
    /\ last_call = NoCall
    /\ predict_raised = FALSE
    /\ results = [s \in CacheStudies |-> EmptyFolder]
    /\ \E folder \in folders :
          uploads = [s \in UploadNames |-> IF s = "s1" THEN folder ELSE NoUpload]
    /\ validation = <<>>
    /\ archives = [n \in RawNames |-> NoRawFile]
    /\ ingest = [c \in Callers |-> IdleIngest]
    /\ frame = [c \in Callers |-> IdleFrame]
    /\ waiting = <<>>
    /\ disk = InitialDisk
    /\ files_call = NoFilesCall
    /\ processing_tasks = [t \in TaskIds |-> NoTask]
    /\ storage = [upload_dir |-> {}, output_dir |-> {}]

InitResolver == InitOn(ResolverFolders)

\* validate_segmentation_files(uploads/s1): the report is kept.
validate_folder ==
    /\ validation' = <<validate_segmentation_files(uploads["s1"])>>
    /\ UNCHANGED <<wrappers, model_wrapper, inference_service, cleanup_raises, last_call,
                   predict_raised, results, uploads, archives, ingest, disk, files_call, processing_tasks, storage, frame, waiting>>

\* Path.glob yields the entries in the directory's order, which is not fixed.
relist ==
    /\ uploads["s1"].exists
    /\ \E l \in Enumerations(uploads["s1"].listing) :
          uploads' = [uploads EXCEPT !["s1"].listing = l]
    /\ UNCHANGED <<wrappers, model_wrapper, inference_service, cleanup_raises, last_call,
                   predict_raised, results, validation, archives, ingest, disk, files_call, processing_tasks, storage, frame, waiting>>

NextResolver ==
    \/ validate_folder
    \/ relist

SpecResolver == InitResolver /\ [][NextResolver]_vars

(***************************************************************************)
(* Properties                                                              *)
(***************************************************************************)
NothingRunning == \A c \in Callers : ~Running(frame[c])

StepsOf(f) == {f.steps[i] : i \in DOMAIN f.steps}

\* C1: a run with force_reprocess = false that reaches run_inference_pipeline
\* answers cached = true exactly when the result folder held a segmentation
\* file and, if an overlay was asked for, an overlay file; the cached answer
\* names files that were there, and nothing else happened: no step of the
\* pipeline ran, the folder's files and the manager are as they were.
C1_CachedExactlyOnHit ==
    \A c \in Callers :
        LET f == frame[c]
            segs == Glob(f.before, SegNames)
            overlays == Glob(f.before, OverlayNames)
        IN  (f.pc = "done" /\ ~f.force_reprocess /\ f.status # "404") =>
              /\ f.cached <=> (segs # {} /\ (~f.create_overlay \/ overlays # {}))
              /\ f.cached =>
                    /\ f.status = "ok"
                    /\ f.saved_path \in segs
                    /\ IF overlays = {} THEN f.overlay_path = "None"
                                        ELSE f.overlay_path \in overlays
                    /\ f.steps = <<>>
                    /\ results[f.study] = f.before
                    /\ wrappers[model_wrapper] = f.manager_before

\* C1 witness: a hit with overlay after five predictions, the study folder gone.
C1_Witness ==
    \E c \in Callers :
        /\ frame[c].pc = "done" /\ frame[c].cached /\ frame[c].create_overlay
        /\ ~frame[c].force_reprocess
        /\ ~uploads[frame[c].study].exists
        /\ frame[c].manager_before.inference_count = max_inferences_before_cleanup

\* C2: inference_count stays within 0..5 and no predictor instance answers
\* more than 5 predictions; the predict that finds the count at 5 reloads
\* first, and once it has returned the count is 1.
C2_ReloadAfterFive ==
    /\ \A i \in WrapperIds :
          /\ wrappers[i].inference_count \in 0..max_inferences_before_cleanup
          /\ wrappers[i].served <= max_inferences_before_cleanup
    /\ \A c \in Callers :
          LET f == frame[c]
          IN  /\ (f.pc = "predicting" /\ f.count_at_predict = max_inferences_before_cleanup) =>
                    /\ f.reloaded
                    /\ wrappers[f.w].inference_count = 0 /\ wrappers[f.w].served = 0
              /\ (f.pc = "done" /\ f.status = "ok" /\ ~f.cached
                     /\ f.count_at_predict = max_inferences_before_cleanup) =>
                    /\ f.reloaded
                    /\ wrappers[f.w].inference_count = 1 /\ wrappers[f.w].served = 1

\* C2 witness: the sixth predict since the load has returned.
C2_Witness ==
    \E c \in Callers :
        /\ frame[c].pc = "done" /\ frame[c].status = "ok"
        /\ frame[c].count_at_predict = max_inferences_before_cleanup
        /\ frame[c].reloaded

\* C3: a pipeline run that starts right after a predict whose inference
\* raised, and whose own preprocessing, loading and inference do not fail,
\* succeeds.
C3_RunAfterRaiseSucceeds ==
    \A c \in Callers :
        (frame[c].pc = "done" /\ frame[c].after_raise /\ ~frame[c].env_failed) =>
            frame[c].status = "ok"

\* C3 failing case: such a run has answered "model not loaded".
C3_Failing ==
    \E c \in Callers :
        /\ frame[c].pc = "done" /\ frame[c].after_raise /\ ~frame[c].env_failed
        /\ frame[c].status = "failed" /\ frame[c].error = "not_loaded"
        /\ wrappers[frame[c].w].is_loaded /\ wrappers[frame[c].w].model = NoModel

\* C4: while a predict is in flight no other handler is running, and the
\* predictor it runs on is still the one the wrapper holds.
C4_PredictRunsAlone ==
    \A c \in Callers :
        frame[c].pc = "predicting" =>
            /\ \A d \in Callers \ {c} : ~Running(frame[d])
            /\ frame[c].used # NoModel
            /\ wrappers[frame[c].w].model = frame[c].used
            /\ frame[c].w = model_wrapper

\* C4 witness: a predict in flight on a predictor that has answered before.
C4_Witness ==
    \E c \in Callers :
        /\ frame[c].pc = "predicting"
        /\ wrappers[frame[c].w].served > 0
        /\ wrappers[frame[c].w].model = frame[c].used

\* C5: of two saving runs on one study handled back to back from an empty
\* cache, both successful, neither forced, the second asking for no more
\* than the first, the first processes and the second answers cached = true,
\* and one cache entry exists.
C5_SecondRunIsCached ==
    \A c \in Callers :
        LET f == frame[c]
        IN  (/\ f.pc = "done" /\ f.status = "ok" /\ f.save_result /\ ~f.force_reprocess
             /\ f.follows \in {"processed", "processed_with_overlay"}
             /\ f.create_overlay => f.follows = "processed_with_overlay") =>
               /\ f.cached
               /\ Cardinality(Glob(results[f.study], SegNames)) = 1

\* C5 failing case: two identical requests with an output_filename, both
\* processed.
C5_Failing ==
    \E c \in Callers :
        /\ frame[c].pc = "done" /\ frame[c].status = "ok" /\ ~frame[c].cached
        /\ frame[c].save_result /\ ~frame[c].force_reprocess /\ ~frame[c].create_overlay
        /\ frame[c].via = "http" /\ frame[c].output_filename = "plain"
        /\ frame[c].follows = "processed"
        /\ frame[c].before = [EmptyFolder EXCEPT !.exists = TRUE]

\* C6: after a run that answered success with save = true, a probe reports a
\* segmentation, and an overlay when the run asked for one.
C6_ProbeAfterSavedRun ==
    \A c \in Callers :
        LET f == frame[c]
        IN  (f.pc = "done" /\ f.status = "ok" /\ f.save_result) =>
               \A p \in check_cache_status(results[f.study]) :
                   p.has_segmentation /\ (f.create_overlay => p.has_overlay)

\* C6 failing case: POST with save and an output_filename outside the cache
\* pattern has answered success, and the folder holds no segmentation.
C6_Failing ==
    \E c \in Callers :
        /\ frame[c].pc = "done" /\ frame[c].status = "ok" /\ ~frame[c].cached
        /\ frame[c].save_result /\ frame[c].output_filename = "plain"
        /\ Glob(results[frame[c].study], SegNames) = {}

\* C7: a forced run never answers cached = true; when it succeeds it has run
\* preprocess, predict and postprocess, and with save = true it adds no
\* segmentation file: a folder that held one holds no more than before, and
\* every segmentation file still there is one this run wrote.
C7_ForcedRunOverwrites ==
    \A c \in Callers :
        LET f == frame[c]
            segs == Glob(f.before, SegNames)
            after == Glob(results[f.study], SegNames)
        IN  (f.pc = "done" /\ f.force_reprocess /\ f.status # "404") =>
               /\ ~f.cached
               /\ f.status = "ok" => {"preprocess", "predict", "postprocess"} \subseteq StepsOf(f)
               /\ (f.status = "ok" /\ f.save_result /\ segs # {}) =>
                     /\ Cardinality(after) <= Cardinality(segs)
                     /\ \A n \in after : results[f.study].files[n].run = c

\* C7 failing case: a forced saving run has answered success and the folder
\* holds its segmentation next to an older one.
C7_Failing ==
    \E c \in Callers :
        /\ frame[c].pc = "done" /\ frame[c].force_reprocess /\ frame[c].status = "ok"
        /\ frame[c].save_result /\ frame[c].via = "service"
        /\ results[frame[c].study].files["seg"].run = c
        /\ results[frame[c].study].files["altseg"].run > NumCallers

\* C8: whenever no handler is running and a result folder holds
\* <study>-seg.nii.gz and <study>-overlay.nii.gz, one run wrote both.
C8_OverlayOfSameRun ==
    NothingRunning =>
        \A s \in Studies :
            (results[s].files["seg"] # NoFile /\ results[s].files["overlay"] # NoFile) =>
                results[s].files["seg"].run = results[s].files["overlay"].run

\* C8 failing case: a cache hit that asked for the overlay answers with a
\* segmentation and an overlay of different runs.
C8_Failing ==
    \E c \in Callers :
        /\ frame[c].pc = "done" /\ frame[c].cached /\ frame[c].create_overlay
        /\ frame[c].saved_path = "seg" /\ frame[c].overlay_path = "overlay"
        /\ results[frame[c].study].files["seg"].run
              # results[frame[c].study].files["overlay"].run
        /\ results[frame[c].study].files["altseg"] = NoFile

\* C9: what a finished saving run with overlay leaves is all or nothing: a
\* segmentation file it wrote is there only together with the overlay it
\* wrote, so none remains from a run that failed part-way.
C9_EntryAllOrNothing ==
    \A c \in Callers :
        LET f == frame[c]
            files == results[f.study].files
        IN  (f.pc = "done" /\ f.save_result /\ f.create_overlay) =>
               \A n \in FileNames :
                   (IsSegName(n) /\ files[n].run = c) => files["overlay"].run = c

\* C9 failing case: the run failed at the overlay write and its
\* segmentation file is in the folder.
C9_Failing ==
    \E c \in Callers :
        /\ frame[c].pc = "done" /\ frame[c].status = "failed"
        /\ frame[c].error = "save_overlay"
        /\ results[frame[c].study].files["seg"].run = c
        /\ results[frame[c].study].files["overlay"] = NoFile

\* C10: when ensure_model_loaded returns true the wrapper holds a predictor
\* and is loaded.
C10_EnsureGivesReady ==
    [][\A outcome \in LoadOutcomes :
          (load_model_endpoint(outcome)
             /\ ensure_model_loaded_returns(wrappers, get_model_wrapper, outcome)) =>
                /\ wrappers'[model_wrapper'].is_loaded
                /\ wrappers'[model_wrapper'].model # NoModel]_vars

\* C10 failing case: loaded, no predictor, and ensure_model_loaded about to
\* return true without loading.
C10_Failing ==
    /\ model_wrapper # NoWrapper
    /\ wrappers[model_wrapper].is_loaded
    /\ wrappers[model_wrapper].model = NoModel
    /\ ensure_model_loaded_returns(wrappers, model_wrapper, "ok")
    /\ ensure_model_loaded(wrappers, model_wrapper, "ok", NewModelId(model_wrapper)) = wrappers
    /\ NothingRunning

\* The manager state the spec calls Unloaded.
Unloaded(w) == ~w.is_loaded /\ w.model = NoModel

\* C11: a load that fails (file missing, or construction / weights raising
\* with the new model object already in place) returns False instead of
\* raising and leaves the wrapper unloaded with no predictor, also when a
\* predictor was held before the call: for POST /ml/load-model, for the
\* ensure_model_loaded of a run and for the reload inside predict.
C11_FailedLoadLeavesUnloaded ==
    /\ last_call.op = "load" =>
          /\ last_call.returned \in {"True", "False"}
          /\ last_call.returned = "True" <=> wrappers[last_call.on].is_loaded
          /\ last_call.returned = "False" => Unloaded(wrappers[last_call.on])
    /\ \A c \in Callers :
          /\ frame[c].pc = "done"
          /\ \/ frame[c].error = "reload_failed"
             \/ frame[c].error = "not_loaded" /\ frame[c].env_failed
          => Unloaded(wrappers[frame[c].w])

C11_Witness ==
    /\ last_call.op = "load"
    /\ last_call.returned = "False"
    /\ last_call.before.model # NoModel

\* C12: a force cleanup (MedNeXtWrapper.force_cleanup, force_global_cleanup)
\* returns without raising and leaves the wrapper it cleaned as unload would:
\* no predictor held and not reported as loaded.
C12_CleanupEndsUnloaded ==
    last_call.op \in {"force_cleanup", "global_cleanup"} =>
        /\ last_call.returned = "None"
        /\ last_call.on # NoWrapper => Unloaded(wrappers[last_call.on])

\* The cleanup went through (no predictor left) and the wrapper still reports
\* itself loaded.
C12_Failing ==
    /\ last_call.op = "force_cleanup"
    /\ last_call.before.model # NoModel
    /\ wrappers[last_call.on].model = NoModel
    /\ wrappers[last_call.on].is_loaded

\* C13: unload, whatever state the wrapper is in, returns True and leaves it
\* with is_loaded false, no predictor and inference_count 0; with no global
\* wrapper unload_global_model returns True and creates none.
C13_UnloadEndsUnloaded ==
    last_call.op = "unload" =>
        /\ last_call.returned = "True"
        /\ IF last_call.on = NoWrapper
           THEN model_wrapper = NoWrapper
           ELSE /\ Unloaded(wrappers[last_call.on])
                /\ wrappers[last_call.on].inference_count = 0

\* unload answered True and the predictor is still held.
C13_Failing ==
    /\ last_call.op = "unload"
    /\ last_call.returned = "True"
    /\ last_call.on # NoWrapper
    /\ wrappers[last_call.on].model # NoModel
    /\ ~wrappers[last_call.on].is_loaded

\* C14: a predict reached with the wrapper not ready (is_loaded false, or no
\* predictor after a cleanup) raises before any inference and leaves
\* is_loaded, the predictor and inference_count as they were.
C14_PredictNeedsReady ==
    \A c \in Callers :
        /\ "predict" \in StepsOf(frame[c])
        /\ ~frame[c].at_predict.is_loaded \/ frame[c].at_predict.model = NoModel
        => /\ frame[c].pc = "done"
           /\ frame[c].error = "not_loaded"
           /\ "postprocess" \notin StepsOf(frame[c])
           /\ wrappers[frame[c].w] = frame[c].at_predict

C14_Witness ==
    \E c \in Callers :
        /\ frame[c].pc = "done"
        /\ frame[c].error = "not_loaded"
        /\ frame[c].at_predict.is_loaded
        /\ frame[c].at_predict.inference_count > 0

\* C15: a predict given a tensor whose channel count is not 4 rejects it,
\* whatever the batch size and the spatial sides, and the network is never
\* called on it.
C15_WrongChannelsRejected ==
    \A c \in Callers :
        /\ "predict" \in StepsOf(frame[c])
        /\ frame[c].shape[2] # NUM_CHANNELS
        => /\ frame[c].pc = "done"
           /\ frame[c].status = "failed"
           /\ frame[c].error \in {"channels", "not_loaded"}
           /\ frame[c].error = "not_loaded" =>
                  ~frame[c].at_predict.is_loaded \/ frame[c].at_predict.model = NoModel
           /\ "postprocess" \notin StepsOf(frame[c])

C15_Witness ==
    \E c \in Callers :
        /\ frame[c].pc = "done"
        /\ frame[c].error = "channels"
        /\ frame[c].shape[1] = NUM_CHANNELS
        /\ frame[c].shape[2] = NUM_CHANNELS + 1

\* C16: one wrapper, one service, one predictor: the wrapper the cached
\* service and every running pipeline hold is the one get_model_wrapper
\* returns now, and no two wrappers hold a predictor.
C16_OneWrapperOnePredictor ==
    /\ inference_service # NoWrapper => get_model_wrapper = inference_service
    /\ \A c \in Callers : Running(frame[c]) => get_model_wrapper = frame[c].w
    /\ Cardinality({i \in WrapperIds : wrappers[i].model # NoModel}) <= 1

\* Two wrappers alive, each with a predictor of its own.
C16_Failing ==
    /\ inference_service # NoWrapper
    /\ model_wrapper # NoWrapper
    /\ model_wrapper # inference_service
    /\ wrappers[inference_service].model # NoModel
    /\ wrappers[model_wrapper].model # NoModel
    /\ wrappers[model_wrapper].model # wrappers[inference_service].model

\* C17: requests that find the manager busy wait in a bounded first-in
\* first-out line: the handler that begins is the one that has waited
\* longest, and the line never grows to hold every caller, the one arriving
\* at a full line being turned away (Overloaded) instead of run.
C17_BoundedFifoQueue ==
    [][/\ \A c \in Callers :
            waiting # <<>> /\ ~Running(frame[c]) /\ Running(frame'[c]) => c = Head(waiting)
       /\ Len(waiting') < NumCallers
       /\ \A c \in Callers : frame'[c].error = "Overloaded" => frame'[c].steps = <<>>]_vars

\* Every caller is in the line, none was turned away.
C17_Failing ==
    /\ Len(waiting) = NumCallers
    /\ \A c \in Callers : frame[c].error # "Overloaded"

\* What GET /inference/cache-check answers for an empty or missing folder.
ProbeNothing(folder) ==
    check_cache_status(folder) = {[has_segmentation |-> FALSE, has_overlay |-> FALSE]}

\* The same files in two views of a folder (run numbers are bookkeeping).
SameEntry(a, b) ==
    /\ a.exists = b.exists
    /\ \A n \in FileNames : a.files[n].kind = b.files[n].kind

\* C18: a successful evict of study s leaves probe(s) with neither
\* segmentation nor overlay and every other study's folder as it was; evict
\* of a study without result folder answers 404 and changes no folder;
\* after clear-all the probe finds nothing for any study.
C18_EvictAndClear ==
    [][/\ \A s \in CacheStudies :
            delete_inference_result(s) =>
                IF results[s].exists
                THEN /\ last_call'.returned = "200"
                     /\ ProbeNothing(results'[s])
                     /\ \A t \in CacheStudies \ {s} : SameEntry(results'[t], results[t])
                ELSE /\ last_call'.returned = "404"
                     /\ \A t \in CacheStudies : SameEntry(results'[t], results[t])
       /\ clear_all_cache => \A t \in CacheStudies : ProbeNothing(results'[t])]_vars

\* A study has just been evicted while the other one holds a result.
C18_Witness ==
    /\ last_call.op = "evict"
    /\ last_call.returned = "200"
    /\ \E s \in CacheStudies :
          /\ ProbeNothing(results[s])
          /\ \E t \in CacheStudies \ {s} :
                results[t].files["seg"] # NoFile /\ results[t].files["overlay"] # NoFile

\* C19: once the runs have returned, a result folder holds at most one file
\* matching *-seg.nii.gz and at most one matching *-overlay.nii.gz, and a run
\* that stores again what the folder already held (segmentation, and overlay
\* exactly if there was one) leaves the probe's answer as it was.
C19_OneSegmentationOneOverlay ==
    NothingRunning =>
        /\ \A s \in Studies :
              /\ Cardinality(Glob(results[s], SegNames)) <= 1
              /\ Cardinality(Glob(results[s], OverlayNames)) <= 1
        /\ \A c \in Callers :
              LET f == frame[c]
              IN  /\ f.pc = "done" /\ f.status = "ok" /\ f.save_result /\ ~f.cached
                  /\ Glob(f.before, SegNames) # {}
                  /\ f.create_overlay <=> Glob(f.before, OverlayNames) # {}
                  => check_cache_status(results[f.study]) = check_cache_status(f.before)

\* Two files matching *-seg.nii.gz, of different runs, in one folder.
C19_Failing ==
    /\ NothingRunning
    /\ \E s \in Studies :
          /\ Glob(results[s], SegNames) = {"seg", "altseg"}
          /\ results[s].files["seg"].run # results[s].files["altseg"].run

\* C20: a run of run_inference_pipeline or run_inference_from_preprocessed
\* that has begun its steps returns a result whatever fails (preprocess,
\* load, predict, postprocess, overlay, save): success false, cached false,
\* the study name and an error text; it never ends by raising.
C20_FailureIsAResult ==
    \A c \in Callers :
        LET f == frame[c]
        IN  f.pc = "done" /\ f.steps # <<>> =>
               /\ f.status \in {"ok", "failed"}
               /\ f.env_failed => f.status = "failed"
               /\ f.status = "failed" =>
                     /\ ~f.cached
                     /\ f.study \in CacheStudies
                     /\ f.error \in {"preprocess", "not_loaded", "channels", "reload_failed",
                                      "inference", "postprocess_raises", "overlay_raises",
                                      "save", "save_overlay"}

\* A run whose save failed after every earlier step had worked.
C20_Witness ==
    \E c \in Callers :
        /\ frame[c].pc = "done"
        /\ frame[c].status = "failed"
        /\ frame[c].error = "save_overlay"
        /\ "save_seg" \in StepsOf(frame[c])

(***************************************************************************)
(* POST /inference/folder/{folder_name} on studies of any eligibility.     *)
(***************************************************************************)
ThreeVolumes ==
    [exists |-> TRUE,
     listing |-> <<File("t1c", "nii.gz"), File("t1n", "nii.gz"), File("t2w", "nii.gz")>>]

DuplicatedVolume ==
    [exists |-> TRUE,
     listing |-> <<File("t1c", "nii.gz"), File("t1ce", "nii.gz"), File("t1n", "nii.gz"),
                   File("t2w", "nii.gz"), File("t2f", "nii.gz")>>]

EligibilityFolders ==
    {NoUpload, [exists |-> TRUE, listing |-> <<>>], ThreeVolumes, DuplicatedVolume, EligibleFolder}

InitEligibility == InitOn(EligibilityFolders)

NextEligibility ==
    \/ \E c \in Callers, s \in Studies, save \in BOOLEAN, ov \in BOOLEAN :
            Start(c, "http", s, save, ov, FALSE, "None")
    \/ \E c \in Callers, ok \in BOOLEAN : Process(c, ok, "ok")
    \/ \E c \in Callers : Infer(c, TRUE, "ok")
    \/ \E c \in Callers : SaveSegmentation(c, TRUE)
    \/ \E c \in Callers : SaveOverlay(c, TRUE)
    \/ \E c \in Callers : Ack(c)

SpecEligibility == InitEligibility /\ [][NextEligibility]_vars

\* The status the endpoint answers with: 404 raised before the run, 500
\* when the run's result has success false, 200 otherwise.
http_status(f) ==
    IF f.status = "404" THEN 404 ELSE IF f.status = "ok" THEN 200 ELSE 500

(***************************************************************************)
(* Uploads of archives.                                                    *)
(***************************************************************************)
InitIngest == InitOn({NoUpload})

ZipUpload(body) == [filename |-> Named("s1", "zip"), size |-> 1, body |-> body]

\* Requests one after the other and overlapping, of three archives.
NextIngest ==
    \/ \E c \in Callers, body \in {"four", "three", "corrupt"} : upload_mri_file(c, ZipUpload(body))
    \/ \E c \in Callers : save_file(c)
    \/ \E c \in Callers : upload_returns(c)
    \/ \E s \in {"s1", "s1_1"} : delete_uploaded_file(s)

SpecIngest == InitIngest /\ [][NextIngest]_vars

\* Requests one at a time, of every archive.
NoUploadInFlight == \A c \in Callers : ingest[c].pc = "idle"

NextExpansion ==
    \/ \E c \in Callers, body \in ZipBodies :
            NoUploadInFlight /\ upload_mri_file(c, ZipUpload(body))
    \/ \E c \in Callers : save_file(c)
    \/ \E c \in Callers : upload_returns(c)

SpecExpansion == InitIngest /\ [][NextExpansion]_vars

\* Uploads of every declared name and of sizes around the limit.
UploadFileNames == {NoFileName, Named("s1", "zip"), Named("s1", "nii.gz"), Named("s1", "pdf")}
UploadSizes == {0, 1, MAX_FILE_SIZE, MAX_FILE_SIZE + 1, 2 * MAX_FILE_SIZE}

NextUpload ==
    \/ \E c \in Callers, filename \in UploadFileNames, size \in UploadSizes :
            upload_mri_file(c, [filename |-> filename, size |-> size, body |-> "four"])
    \/ \E c \in Callers : save_file(c)
    \/ \E c \in Callers : upload_returns(c)

SpecUpload == InitIngest /\ [][NextUpload]_vars

\* The cached service and the manager: the status endpoint obtains the
\* service, the manager's wrapper is dropped or unloaded, runs go through
\* the cached service or through a service of their own.
NextService ==
    \/ get_inference_status
    \/ force_cleanup
    \/ unload_model_endpoint
    \/ \E c \in Callers, s \in Studies : run_on_cached_service(c, s, FALSE)
    \/ \E c \in Callers, s \in Studies : Start(c, "service", s, FALSE, FALSE, FALSE, "None")
    \/ \E c \in Callers, outcome \in LoadOutcomes : Process(c, TRUE, outcome)
    \/ \E c \in Callers : Infer(c, TRUE, "ok")
    \/ \E c \in Callers : Ack(c)

SpecService == Init /\ [][NextService]_vars

\* Saving runs and their cancellation.
NextCancel ==
    \/ \E c \in Callers, s \in CacheStudies, ov \in BOOLEAN :
            Start(c, "service", s, TRUE, ov, FALSE, "None")
    \/ \E c \in Callers : Process(c, TRUE, "ok")
    \/ \E c \in Callers : Infer(c, TRUE, "ok")
    \/ \E c \in Callers : SaveSegmentation(c, TRUE)
    \/ \E c \in Callers : SaveOverlay(c, TRUE)
    \/ \E c \in Callers : Ack(c)
    \/ \E c \in Callers : cancel(c)

SpecCancel == Init /\ [][NextCancel]_vars

\* The path handlers, on names a client chooses.
NextPaths ==
    \/ \E filename \in UserNames : save_file_at(filename)
    \/ \E filename \in UserNames : delete_file(filename)
    \/ \E filename \in UserNames : resolve_file_path(filename)

SpecPaths == Init /\ [][NextPaths]_vars

\* The task registry: uploads, the background coroutines, deletions.
NextTasks ==
    \/ \E filename \in TaskFileNames, now \in BOOLEAN : upload_and_process(filename, now)
    \/ \E t \in TaskIds : process_begins(t)
    \/ \E t \in TaskIds : process_continues(t)
    \/ \E t \in TaskIds, copies \in BOOLEAN : process_ends(t, copies)
    \/ \E t \in TaskIds : delete_task(t)

SpecTasks == Init /\ [][NextTasks]_vars

\* The event loop runs every coroutine that can run: a background task that
\* has been scheduled begins, and its sleeps end.
SpecTasksFair ==
    /\ Init
    /\ [][NextTasks]_vars
    /\ \A t \in TaskIds : /\ WF_vars(process_begins(t))
                          /\ WF_vars(process_continues(t))
                          /\ WF_vars(\E copies \in BOOLEAN : process_ends(t, copies))

\* The files of a folder that are of modality m.
FilesOf(folder, m) == {i \in DOMAIN folder.listing : identify_modality(folder.listing[i]) = m}

ExactlyOnePerModality(folder) ==
    folder.exists /\ \A m \in REQUIRED_MODALITIES : Cardinality(FilesOf(folder, m)) = 1

Duplicated(folder) ==
    folder.exists /\ \E m \in REQUIRED_MODALITIES : Cardinality(FilesOf(folder, m)) > 1

HasError(report, kind) ==
    \E i \in DOMAIN report.validation_errors : report.validation_errors[i].kind = kind

\* C22: the resolver's report has is_valid true exactly when each of the
\* four modalities is matched by exactly one file of the folder; a folder
\* with two files of one modality is reported not valid, with a duplicate
\* error, and get_modality_files_mapping gives preprocessing nothing.
C22_ValidIffExactlyOneEach ==
    validation # <<>> =>
        /\ validation[1].is_valid <=> ExactlyOnePerModality(uploads["s1"])
        /\ Duplicated(uploads["s1"]) =>
              /\ HasError(validation[1], "duplicate")
              /\ ~validation[1].is_valid
              /\ get_modality_files_mapping(uploads["s1"]) = NoMapping

\* All four modalities present and one of them twice: reported valid, the
\* duplicate noted only as an error text, and the mapping handed out.
C22_Failing ==
    /\ validation # <<>>
    /\ Duplicated(uploads["s1"])
    /\ HasError(validation[1], "duplicate")
    /\ validation[1].is_valid
    /\ get_modality_files_mapping(uploads["s1"]) # NoMapping

\* C23: the report is a function of the set of file names alone: the report
\* made of a folder equals the report made of the same files in any other
\* order of enumeration, duplicates included.
C23_ReportIgnoresOrder ==
    validation # <<>> => validation[1] = validate_segmentation_files(uploads["s1"])

\* t1c.nii.gz and t1ce.nii.gz in one folder: the report names as the t1c
\* file whichever the directory listed first.
C23_Failing ==
    /\ validation # <<>>
    /\ validation[1].found_modalities["t1c"] = File("t1c", "nii.gz")
    /\ validate_segmentation_files(uploads["s1"]).found_modalities["t1c"] = File("t1ce", "nii.gz")

NoModelUse(f) ==
    \A i \in DOMAIN f.steps : f.steps[i] \notin {"ensure_loaded", "predict"}

\* C21: an endpoint run on a study without cache entry that is not eligible
\* (a modality missing or matched twice) is answered 400, and one on a
\* study without folder 404; in both the model is neither loaded nor
\* invoked, and the cache probe of the study finds nothing afterwards.
C21_NotEligibleRejected ==
    \A c \in Callers :
        LET f == frame[c]
        IN  /\ f.pc = "done" /\ f.via = "http" /\ ~f.cached
            /\ ~ExactlyOnePerModality(uploads[f.study])
            => /\ http_status(f) = IF uploads[f.study].exists THEN 400 ELSE 404
               /\ NoModelUse(f)
               /\ check_cache_status(results[f.study])
                      = {[has_segmentation |-> FALSE, has_overlay |-> FALSE]}

\* A study of three volumes: the run stops at preprocessing, before any
\* load, and the endpoint answers 500.
C21_Failing ==
    \E c \in Callers :
        LET f == frame[c]
        IN  /\ f.pc = "done" /\ f.via = "http" /\ ~f.cached
            /\ uploads[f.study] = ThreeVolumes
            /\ http_status(f) = 500
            /\ f.steps = <<"preprocess">>
            /\ NoModelUse(f)
            /\ check_cache_status(results[f.study])
                   = {[has_segmentation |-> FALSE, has_overlay |-> FALSE]}

\* The request of caller c ends in this step.
Ends(c) == ingest[c].pc = "reading" /\ ingest'[c].pc = "done"

ListingOf(body) == extract_entries(infolist(body), [listing |-> <<>>, raised |-> "none"]).listing

\* C25: an expansion never goes into a folder that exists: its folder is the
\* first of s1, s1_1, s1_2 that was absent, it holds the files of this
\* archive, and every other folder is after the expansion what it was
\* before; so uploads of the same name one after the other give folders
\* that differ in the suffix only.
C25_FirstAbsentFolder ==
    [][\A c \in Callers :
          Ends(c) /\ ingest'[c].type = "zip_extracted" =>
              \E k \in DOMAIN SuffixedFolders :
                  /\ ingest'[c].extracted_folder = SuffixedFolders[k]
                  /\ ~uploads[SuffixedFolders[k]].exists
                  /\ \A j \in 1..(k - 1) : uploads[SuffixedFolders[j]].exists
                  /\ uploads'[SuffixedFolders[k]].exists
                  /\ uploads'[SuffixedFolders[k]].listing = ListingOf(ingest[c].file.body)
                  /\ \A s \in UploadNames \ {SuffixedFolders[k]} : uploads'[s] = uploads[s]]_vars

\* Three uploads of s1.zip, the last one just expanded into s1_2, the first
\* two folders holding what their archives held.
C25_Witness ==
    /\ uploads["s1"] = [exists |-> TRUE, listing |-> ListingOf("four")]
    /\ uploads["s1_1"] = [exists |-> TRUE, listing |-> ListingOf("three")]
    /\ uploads["s1_2"] = [exists |-> TRUE, listing |-> ListingOf("four")]
    /\ \E c \in Callers : /\ ingest[c].pc = "done" /\ ingest[c].type = "zip_extracted"
                           /\ ingest[c].extracted_folder = "s1_2"

\* The request of caller c opens its raw file in this step.
Opens(c) == ingest[c].pc = "idle" /\ ingest'[c].pc = "reading"

\* C26: two uploads of well-formed archives under the same name that
\* overlap at the await of save_file do not touch each other's state: the
\* raw file a request is writing is not emptied, written or removed by the
\* other, and each ends with zip_extracted, status 200, and its own
\* entries in its own folder.
C26_OverlappingIngestsIndependent ==
    [][\A c \in Callers :
          /\ Opens(c) =>
                \A d \in Callers \ {c} :
                    ingest[d].pc = "reading" /\ ingest[d].file.filename = ingest'[c].file.filename
                        => archives'[ingest[d].file.filename] = archives[ingest[d].file.filename]
          /\ Ends(c) /\ ingest[c].overlapped /\ ingest[c].file.body \in {"four", "three"} =>
                /\ ingest'[c].status = 200
                /\ ingest'[c].type = "zip_extracted"
                /\ uploads'[ingest'[c].extracted_folder].listing = ListingOf(ingest[c].file.body)]_vars

\* Both requests have ended: the one that resumed first expanded its archive
\* and removed the raw file, the other found no file at the path and was
\* answered 500.
C26_Failing ==
    \E c, d \in Callers :
        /\ ingest[c].pc = "done" /\ ingest[c].overlapped /\ ingest[c].type = "zip_extracted"
        /\ ingest[d].pc = "done" /\ ingest[d].overlapped /\ ingest[d].type = "error"
        /\ ingest[d].status = 500
        /\ ingest[d].file.body \in {"four", "three"}
        /\ ingest[c].file.filename = ingest[d].file.filename

\* C29: the raw archive is removed exactly when its expansion succeeded:
\* an upload of an archive ends either with zip_extracted, the raw file
\* gone and the folder there, or with zip_failed and the raw file at its
\* uploaded name holding what was uploaded.
C29_ArchiveRemovedIffExpanded ==
    [][\A c \in Callers :
          Ends(c) /\ ingest[c].file.filename.ext = "zip" =>
              LET file == ingest[c].file
              IN  IF ingest'[c].type = "zip_extracted"
                  THEN /\ ~archives'[file.filename].exists
                       /\ uploads'[ingest'[c].extracted_folder].exists
                  ELSE /\ ingest'[c].type = "zip_failed"
                       /\ archives'[file.filename] = [exists |-> TRUE, body |-> file.body]]_vars

\* An upload whose archive was never expanded and is not in uploads/: the
\* request it overlapped with removed the file they shared.
C29_Failing ==
    \E c \in Callers :
        /\ ingest[c].pc = "done" /\ ingest[c].file.filename.ext = "zip"
        /\ ingest[c].type \notin {"zip_extracted", "zip_failed"}
        /\ ~archives[ingest[c].file.filename].exists
        /\ \A s \in UploadNames : ingest[c].extracted_folder # s

\* A well-formed archive none of whose extracted entries is a .nii.gz or
\* .nii file.
NoVolumes(body) ==
    /\ body \notin BadZipBodies
    /\ \A i \in DOMAIN infolist(body) :
          LET file_info == infolist(body)[i]
          IN  \/ file_info.dir \/ IsHidden(file_info.name)
              \/ file_info.fails = "none" /\ ~EndsNiiGz(file_info.name) /\ ~EndsNii(file_info.name)

\* C24: the upload of an archive without volume files succeeds (the folder
\* is made and an extraction result returned), and the resolver's report in
\* that result has is_valid false and names t1c, t1n, t2w and t2f as missing.
C24_NoVolumesAllMissing ==
    \A c \in Callers :
        ingest[c].pc = "done" /\ NoVolumes(ingest[c].file.body) =>
            /\ ingest[c].type = "zip_extracted"
            /\ ingest[c].status = 200
            /\ ~ingest[c].validation_result.is_valid
            /\ ingest[c].validation_result.missing_modalities = REQUIRED_MODALITIES

\* The archive with readme.txt alone: expanded, reported not valid, and no
\* modality named as missing.
C24_Failing ==
    \E c \in Callers :
        /\ ingest[c].pc = "done" /\ ingest[c].file.body = "no_volumes"
        /\ ingest[c].type = "zip_extracted"
        /\ ingest[c].status = 200
        /\ uploads[ingest[c].extracted_folder].listing = <<File("readme", "txt")>>
        /\ ~ingest[c].validation_result.is_valid
        /\ ingest[c].validation_result.missing_modalities = {}
        /\ HasError(ingest[c].validation_result, "no_nifti")

\* The entries that are neither directories nor hidden.
IsFileEntry(file_info) == ~file_info.dir /\ ~IsHidden(file_info.name)
FileEntries(body) == SelectSeq(infolist(body), IsFileEntry)

\* C27: after a successful upload of an archive the study folder is not
\* empty and holds exactly one file for each entry that is neither a
\* directory nor hidden: the i-th file has the base name of the i-th such
\* entry, with a counter when the name was taken, no two files have one
\* name, and total_files is their number.
C27_OneFilePerEntry ==
    [][\A c \in Callers :
          Ends(c) /\ ingest'[c].type = "zip_extracted" =>
              LET listing == uploads'[ingest'[c].extracted_folder].listing
                  entries == FileEntries(ingest[c].file.body)
              IN  /\ listing # <<>>
                  /\ Len(listing) = Len(entries)
                  /\ IsListing(listing)
                  /\ \A i \in DOMAIN listing : [listing[i] EXCEPT !.n = 0] = entries[i].name
                  /\ ingest'[c].total_files = Len(listing)]_vars

\* An archive of a directory and hidden files only: the upload succeeds
\* with total_files 0 and the study folder is empty.
C27_Failing ==
    \E c \in Callers :
        /\ ingest[c].pc = "done" /\ ingest[c].type = "zip_extracted"
        /\ ingest[c].file.body = "hidden_only"
        /\ ingest[c].total_files = 0
        /\ uploads[ingest[c].extracted_folder] = [exists |-> TRUE, listing |-> <<>>]

\* C28: when an expansion fails, whatever the reason (no archive, an entry
\* that cannot be read, a write error), the folder made for it does not
\* exist when the failure is reported, and every folder that existed
\* before is what it was.
C28_FailedExpansionLeavesNoFolder ==
    [][\A c \in Callers :
          Ends(c) /\ ingest'[c].type = "zip_failed" =>
              /\ ~uploads'[ingest'[c].extracted_folder].exists
              /\ \A s \in UploadNames : uploads[s].exists => uploads'[s] = uploads[s]]_vars

\* A file that is no archive was uploaded as s1.zip: zip_failed is reported
\* and the folder made for the expansion is there, empty.
C28_Failing ==
    \E c \in Callers :
        /\ ingest[c].pc = "done" /\ ingest[c].type = "zip_failed"
        /\ ingest[c].file.body = "corrupt"
        /\ uploads[ingest[c].extracted_folder] = [exists |-> TRUE, listing |-> <<>>]

\* C30: an upload of exactly MAX_FILE_SIZE bytes is accepted and one of
\* more is answered 400; an upload is rejected exactly when it has no
\* name, an extension that is not allowed, or is too large, and a rejected
\* upload is answered 400 with the raw files and the folders of uploads/
\* as they were.
C30_LimitInclusiveRejectBeforeWrite ==
    [][\A c \in Callers :
          ingest[c].pc = "idle" /\ ingest'[c].pc # "idle" =>
              LET file == ingest'[c].file
                  rejected == ingest'[c].type = "rejected"
              IN  /\ rejected <=> \/ file.filename = NoFileName
                                   \/ file.filename.ext \notin ALLOWED_EXTENSIONS
                                   \/ file.size >= MAX_FILE_SIZE + 1
                  /\ rejected => /\ ingest'[c].pc = "done"
                                  /\ ingest'[c].status = 400
                                  /\ archives' = archives
                                  /\ uploads' = uploads
                  /\ ~rejected => /\ ingest'[c].pc = "reading"
                                   /\ archives'[file.filename].exists]_vars

\* One upload of MAX_FILE_SIZE bytes has been stored, one of a byte more
\* was answered 400, and uploads/ holds the first one's folder only.
C30_Witness ==
    \E c, d \in Callers :
        /\ ingest[c].pc = "done" /\ ingest[c].file.size = MAX_FILE_SIZE
        /\ ingest[c].type = "zip_extracted" /\ ingest[c].extracted_folder = "s1"
        /\ ingest[d].pc = "done" /\ ingest[d].file.size = MAX_FILE_SIZE + 1
        /\ ingest[d].file.filename = Named("s1", "zip")
        /\ ingest[d].type = "rejected" /\ ingest[d].status = 400
        /\ \A s \in UploadNames : uploads[s].exists <=> s = "s1"
        /\ \A n \in RawNames : ~archives[n].exists

\* get_model_info()["is_loaded"]: the flag, whatever self.model is.
get_model_info(w) == [is_loaded |-> w.is_loaded]

\* C34: in every state of a wrapper that is in use, is_loaded is true
\* exactly when a predictor is held, so the status never reports a loaded
\* model on which predict would refuse: after a failed predict, after a
\* force cleanup and after a failed preventive reload as well.
C34_LoadedIffPredictorHeld ==
    \A i \in WrapperIds :
        i \in Referenced(model_wrapper, frame) \ {NoWrapper} =>
            (get_model_info(wrappers[i]).is_loaded <=> wrappers[i].model # NoModel)

\* A run has ended with the network raising inside predict: the wrapper it
\* used reports is_loaded and holds no predictor.
C34_Failing ==
    \E c \in Callers :
        /\ frame[c].pc = "done" /\ frame[c].error = "inference"
        /\ get_model_info(wrappers[frame[c].w]).is_loaded
        /\ wrappers[frame[c].w].model = NoModel

\* C35: a predict that is refused because the tensor has not NUM_CHANNELS
\* channels leaves the wrapper as it was when predict was entered: the same
\* predictor held, is_loaded and inference_count unchanged, so that the
\* next valid predict needs no reload.
C35_ChannelRejectionKeepsManager ==
    [][\A c \in Callers :
          /\ frame[c].pc = "processing" /\ frame'[c].pc = "done"
          /\ frame'[c].error = "channels"
          => LET w == wrappers'[frame'[c].w]
                 before == frame'[c].at_predict
             IN  /\ w.model = before.model /\ w.model # NoModel
                 /\ w.is_loaded = before.is_loaded
                 /\ w.inference_count = before.inference_count]_vars

\* A run on a tensor of NUM_CHANNELS + 1 channels has been refused: the
\* wrapper, loaded with a predictor when predict was entered, holds none.
C35_Failing ==
    \E c \in Callers :
        /\ frame[c].pc = "done" /\ frame[c].error = "channels"
        /\ shape_1(frame[c].shape) = NUM_CHANNELS + 1
        /\ frame[c].at_predict.model # NoModel /\ frame[c].at_predict.is_loaded
        /\ wrappers[frame[c].w].model = NoModel
        /\ wrappers[frame[c].w].is_loaded
        /\ wrappers[frame[c].w].inference_count = frame[c].at_predict.inference_count

\* How many times a run has executed the step `name`.
Times(f, name) == Cardinality({i \in DOMAIN f.steps : f.steps[i] = name})

\* C32: a run reports a failed inference only after a second attempt: when
\* the network raises inside predict the run cleans up, loads again and
\* calls predict once more on the same input, so a run that ends with the
\* inference error has called predict twice; a run refused for its input
\* (no folder, preprocessing refused) never repeats a step.
C32_OneRetryOfPredict ==
    \A c \in Callers :
        LET f == frame[c]
        IN  /\ f.pc = "done" /\ f.error = "inference" => Times(f, "predict") = 2
            /\ f.pc = "done" /\ f.error \in {"preprocess", "not_found"} =>
                  \A i, j \in DOMAIN f.steps : f.steps[i] = f.steps[j] => i = j

\* The network raised once: the run has ended with the inference error
\* after a single predict, and the predictor is gone and not loaded again.
C32_Failing ==
    \E c \in Callers :
        LET f == frame[c]
        IN  /\ f.pc = "done" /\ f.error = "inference" /\ f.status = "failed"
            /\ Times(f, "predict") = 1
            /\ Times(f, "ensure_loaded") <= 1
            /\ wrappers[f.w].model = NoModel

\* The steps of run_inference_pipeline in the order of its code; the save
\* step is the two writes.
PipelineOrder ==
    <<"preprocess", "ensure_loaded", "predict", "postprocess", "overlay", "save_seg",
      "save_overlay">>

Position(name) == CHOOSE k \in DOMAIN PipelineOrder : PipelineOrder[k] = name

\* C36: a run that is no cache hit executes its steps in the order
\* preprocess, ensure_loaded, predict, postprocess, overlay, save, each one
\* only after the steps it follows; when a step fails the run ends with it
\* and the result folder holds nothing this run wrote.
C36_StepsInPipelineOrder ==
    \A c \in Callers :
        LET f == frame[c]
            did(name) == name \in StepsOf(f)
        IN  f.pc # "idle" /\ f.via # "preprocessed" /\ ~f.cached =>
              /\ \A i, j \in DOMAIN f.steps :
                    i < j => Position(f.steps[i]) < Position(f.steps[j])
              /\ did("ensure_loaded") \/ did("predict") => did("preprocess")
              /\ did("postprocess") => did("predict")
              /\ did("overlay") => did("postprocess") /\ f.create_overlay
              /\ did("save_seg") =>
                    did("postprocess") /\ f.save_result /\ (f.create_overlay => did("overlay"))
              /\ did("save_overlay") => did("save_seg") /\ did("overlay")
              /\ f.pc = "done" /\ f.status = "failed" =>
                    \A n \in FileNames : results[f.study].files[n].run # c

\* The overlay write failed after the steps ran in order: the run is
\* reported failed and the segmentation it wrote is in the result folder.
C36_Failing ==
    \E c \in Callers :
        LET f == frame[c]
        IN  /\ f.pc = "done" /\ f.status = "failed" /\ f.via = "service"
            /\ f.steps \in {<<"preprocess", "ensure_loaded", "predict", "postprocess",
                               "overlay", "save_seg", "save_overlay">>,
                             <<"preprocess", "predict", "postprocess", "overlay", "save_seg",
                               "save_overlay">>}
            /\ \E n \in FileNames : results[f.study].files[n].run = c

\* C37: a service loads and predicts on one and the same wrapper, the
\* manager's current one: a run through the service cached by
\* get_inference_service runs on the manager's wrapper, and ends ok whenever
\* no load of the model failed during it, a force_global_cleanup in between
\* included.
C37_ServiceRunsOnManagersWrapper ==
    \A c \in Callers :
        frame[c].via = "cached" =>
            /\ frame[c].pc \in {"processing", "predicting"} => frame[c].w = get_model_wrapper
            /\ frame[c].pc = "done" /\ ~frame[c].env_failed => frame[c].status = "ok"

\* After force_global_cleanup a run through the cached service has failed
\* with the predictor missing, no load having failed or even been tried: the
\* wrapper it predicts on is not the manager's.
C37_Failing ==
    \E c \in Callers :
        /\ frame[c].via = "cached"
        /\ frame[c].pc = "done"
        /\ frame[c].status = "failed"
        /\ frame[c].error = "not_loaded"
        /\ ~frame[c].env_failed
        /\ frame[c].w = inference_service
        /\ frame[c].w # model_wrapper
        /\ wrappers[frame[c].w].model = NoModel

\* The path is not uploads/ and not below it.
Outside(parts) == ~Within(parts, UploadsRoot)

\* The name, taken from uploads/, leads out of it.
Escapes(name) == Outside(resolve(Div(UPLOAD_DIR, name)))

\* C38: no name a client supplies makes save_file, delete_file or
\* resolve_file_path touch anything outside uploads/: no call creates or
\* removes a file or a directory outside it, the path a call answers with is
\* never outside it, and a name that resolves outside it is refused (400)
\* with the disk left as it was.
C38_NothingOutsideUploads ==
    [][/\ \A x \in disk.files \cup disk'.files \cup disk.dirs \cup disk'.dirs :
              Outside(x) => /\ x \in disk.files <=> x \in disk'.files
                            /\ x \in disk.dirs <=> x \in disk'.dirs
       /\ files_call'.path # NoPath => ~Outside(files_call'.path)
       /\ files_call'.op # "none" /\ Escapes(files_call'.name) =>
              files_call'.status = 400 /\ disk' = disk]_vars

\* delete_file has answered 200 to a name with `..` in it and the file it
\* names, outside uploads/, is gone.
C38_Failing ==
    /\ files_call.op = "delete_file"
    /\ files_call.name = PathOf(FALSE, << Up, <<"secret.nii">> >>)
    /\ Escapes(files_call.name)
    /\ files_call.status = 200
    /\ Outside(files_call.path)
    /\ files_call.path \in InitialDisk.files
    /\ files_call.path \notin disk.files

\* C39: delete_task(t) removes the record of task t and the input and output
\* files of task t, and nothing else: the record of every other task is
\* unchanged and no file of another task is removed, whatever the names of
\* the files are.
C39_DeleteTaskRemovesOnlyItsOwn ==
    [][\A t \in TaskIds :
          processing_tasks[t].registered /\ ~processing_tasks'[t].registered =>
              /\ \A u \in TaskIds \ {t} : processing_tasks'[u] = processing_tasks[u]
              /\ \A f \in storage.upload_dir \ storage'.upload_dir :
                     f = processing_tasks[t].input
              /\ \A f \in storage.output_dir \ storage'.output_dir :
                     f = processing_tasks[t].result_file]_vars

\* A task still queued in the registry, never deleted, whose input file is
\* gone: the task deleted had another file name, one its own contains.
C39_Failing ==
    \E t, u \in TaskIds :
        /\ processing_tasks[t].deleted
        /\ processing_tasks[u].registered
        /\ processing_tasks[u].status = "queued"
        /\ processing_tasks[u].filename # processing_tasks[t].filename
        /\ Contains(processing_tasks[u].filename, split_first(processing_tasks[t].filename))
        /\ processing_tasks[u].input \notin storage.upload_dir

TaskStatuses == {"queued", "processing", "completed", "failed"}

\* How far a status is: queued, then processing, then completed or failed.
Rank(status) == IF status = "queued" THEN 0 ELSE IF status = "processing" THEN 1 ELSE 2

WrittenBy(c, res) == {n \in FileNames : res[frame[c].study].files[n].run = c}

\* C33: a run that has been cancelled goes no further: its next move is to
\* return Cancelled, with no later step executed (the predict in flight at
\* the cancellation excepted, which completes) and nothing written to the
\* cache.
C33_CancelledRunStops ==
    [][\A c \in Callers :
          /\ Running(frame[c])
          /\ frame[c].cancelled_at # "none"
          /\ frame'[c].pc # frame[c].pc
          => /\ frame'[c].pc = "done"
             /\ frame'[c].status = "cancelled"
             /\ frame[c].pc # "predicting" => frame'[c].steps = frame[c].steps
             /\ WrittenBy(c, results') \subseteq WrittenBy(c, results)]_vars

\* A run cancelled before its first step has run every step and answered
\* ok, its segmentation in the cache.
C33_Failing ==
    \E c \in Callers :
        /\ frame[c].pc = "done"
        /\ frame[c].cancelled_at = "processing"
        /\ frame[c].status = "ok"
        /\ ~frame[c].cached
        /\ "predict" \in StepsOf(frame[c])
        /\ "save_seg" \in StepsOf(frame[c])
        /\ WrittenBy(c, results) # {}

====
